---- MODULE Spec2Model ----
(***************************************************************************)
(* Potentials normalization of the "Personal Potentials" application       *)
(* (src/App.py): _clean_tokens, normalize_potentials_text as defined at    *)
(* line 84, parse_potentials_9, build_matrix_md and build_canon_bundle;    *)
(* ai_generate_focus; the accounts, the profiles and the session.          *)
(*                                                                         *)
(* A Python str is a sequence of Unicode code points (naturals), so that   *)
(* str.lower(), the character classes of the re module (\s, \d, \w, \b)    *)
(* and the Cyrillic literals of the source are modelled by what they are.  *)
(* A Python value that may be None is the record None or Str(s).           *)
(***************************************************************************)
EXTENDS Integers, Sequences, FiniteSets

\* ------------------------------------------------------------------------
\* Characters
\* ------------------------------------------------------------------------

\* The code points of the characters the source names in its literals.
Ch == [ tab |-> 9, lf |-> 10, cr |-> 13, space |-> 32, percent |-> 37,
        rparen |-> 41, star |-> 42, comma |-> 44, hyphen |-> 45, dot |-> 46,
        slash |-> 47, colon |-> 58, semicolon |-> 59, underscore |-> 95,
        pipe |-> 124, endash |-> 8211, emdash |-> 8212, bullet |-> 8226 ]

\* str.isspace() / the \s class of re for str patterns.
Whitespace ==
    {9, 10, 11, 12, 13, 28, 29, 30, 31, 32, 133, 160, 5760, 8232, 8233,
     8239, 8287, 12288} \cup (8192..8202)

\* The line boundaries of str.splitlines().
LineBreaks == {10, 11, 12, 13, 28, 29, 30, 133, 8232, 8233}

IsSpace(c) == c \in Whitespace

\* The \d class: the ASCII digits 0..9.
IsDigit(c) == c \in 48..57

\* The \w class: digits, underscore, Latin letters, Cyrillic letters
\* (А..я, Ё, ё).
IsWordChar(c) ==
    c \in (48..57) \cup (65..90) \cup (97..122) \cup {95}
          \cup (1040..1103) \cup {1025, 1105}

\* str.lower() on one character: A..Z, А..Я and Ё have a lower case.
LowerChar(c) ==
    IF c \in 65..90 THEN c + 32
    ELSE IF c \in 1040..1071 THEN c + 32
    ELSE IF c = 1025 THEN 1105
    ELSE c

\* str.lower()
Lower(s) == [i \in 1..Len(s) |-> LowerChar(s[i])]

\* ------------------------------------------------------------------------
\* Python values
\* ------------------------------------------------------------------------

None == [none |-> TRUE]

Str(s) == [none |-> FALSE, s |-> s]

\* (x or ""): None and "" are both falsy.
OrEmpty(x) == IF x.none THEN <<>> ELSE x.s

\* not x
Falsy(x) == x.none \/ x.s = <<>>

\* ------------------------------------------------------------------------
\* str helpers
\* ------------------------------------------------------------------------

RECURSIVE LStripChars(_, _)
LStripChars(s, chars) ==
    IF s # <<>> /\ Head(s) \in chars THEN LStripChars(Tail(s), chars) ELSE s

RECURSIVE RStripChars(_, _)
RStripChars(s, chars) ==
    IF s # <<>> /\ s[Len(s)] \in chars
    THEN RStripChars(SubSeq(s, 1, Len(s) - 1), chars)
    ELSE s

\* str.strip(chars)
StripChars(s, chars) == RStripChars(LStripChars(s, chars), chars)

\* str.strip()
Strip(s) == StripChars(s, Whitespace)

\* s[a:b] of Python for 0 <= a, with the 1-based first index a+1.
Slice(s, a, b) ==
    LET hi == IF b < Len(s) THEN b ELSE Len(s)
    IN  IF a >= hi THEN <<>> ELSE SubSeq(s, a + 1, hi)

\* [x for x in xs if keep(x)]
RECURSIVE NonEmpty(_)
NonEmpty(xs) ==
    IF xs = <<>> THEN <<>>
    ELSE IF Head(xs) = <<>> THEN NonEmpty(Tail(xs))
    ELSE <<Head(xs)>> \o NonEmpty(Tail(xs))

\* [p.strip() for p in parts if p.strip()]
StripAll(parts) == NonEmpty([i \in 1..Len(parts) |-> Strip(parts[i])])

\* The end (exclusive) of the run of characters of `chars` starting at i.
RECURSIVE RunEnd(_, _, _)
RunEnd(s, i, chars) ==
    IF i <= Len(s) /\ s[i] \in chars THEN RunEnd(s, i + 1, chars) ELSE i

\* re.split(r"[chars]+", s), scanning from position i with the piece
\* collected so far.
RECURSIVE SplitRuns(_, _, _, _)
SplitRuns(s, i, chars, piece) ==
    IF i > Len(s) THEN <<piece>>
    ELSE IF s[i] \in chars
         THEN <<piece>> \o SplitRuns(s, RunEnd(s, i, chars), chars, <<>>)
         ELSE SplitRuns(s, i + 1, chars, Append(piece, s[i]))

\* ------------------------------------------------------------------------
\* Potentials normalization (accept ANY input)
\* ------------------------------------------------------------------------

DEFAULT_NAMES ==
    << <<1040, 1084, 1077, 1090, 1080, 1089, 1090>>,        \* Аметист
       <<1043, 1088, 1072, 1085, 1072, 1090>>,              \* Гранат
       <<1062, 1080, 1090, 1088, 1080, 1085>>,              \* Цитрин
       <<1057, 1072, 1087, 1092, 1080, 1088>>,              \* Сапфир
       <<1043, 1077, 1083, 1080, 1086, 1076, 1086, 1088>>,  \* Гелиодор
       <<1048, 1079, 1091, 1084, 1088, 1091, 1076>>,        \* Изумруд
       <<1071, 1085, 1090, 1072, 1088, 1100>>,              \* Янтарь
       <<1064, 1091, 1085, 1075, 1080, 1090>>,              \* Шунгит
       <<1056, 1091, 1073, 1080, 1085>> >>                  \* Рубин

\* ReplaceSeparators without .replace("|", ",").
ReplaceSeparators_KeepPipe(s) ==
    [i \in 1..Len(s) |->
        IF s[i] \in {Ch.emdash, Ch.endash} THEN Ch.hyphen ELSE s[i]]

\* s.replace("|", ",").replace("—", "-").replace("–", "-")
ReplaceSeparators(s) ==
    [i \in 1..Len(s) |->
        IF s[i] = Ch.pipe THEN Ch.comma
        ELSE IF s[i] \in {Ch.emdash, Ch.endash} THEN Ch.hyphen
        ELSE s[i]]

\* The alternatives of (ряд|row|процен(т|ты)|%|место|позиция|потенциал(ы)?)
\* in the order the matcher tries them (the optional ы is greedy).
FillerAlternatives ==
    << <<1088, 1103, 1076>>,                                      \* ряд
       <<114, 111, 119>>,                                         \* row
       <<1087, 1088, 1086, 1094, 1077, 1085, 1090>>,              \* процент
       <<1087, 1088, 1086, 1094, 1077, 1085, 1090, 1099>>,        \* проценты
       <<37>>,                                                    \* %
       <<1084, 1077, 1089, 1090, 1086>>,                          \* место
       <<1087, 1086, 1079, 1080, 1094, 1080, 1103>>,              \* позиция
       <<1087, 1086, 1090, 1077, 1085, 1094, 1080, 1072, 1083, 1099>>, \* потенциалы
       <<1087, 1086, 1090, 1077, 1085, 1094, 1080, 1072, 1083>> >>     \* потенциал

\* \b between positions i-1 and i (1-based, i in 1..Len(s)+1).
WordBoundary(s, i) ==
    LET before == i > 1 /\ IsWordChar(s[i - 1])
        after  == i <= Len(s) /\ IsWordChar(s[i])
    IN  before # after

\* The literal w (lower case) matches s at i under flags=re.I.
MatchesAt(s, i, w) ==
    /\ i + Len(w) - 1 <= Len(s)
    /\ \A k \in 1..Len(w) : LowerChar(s[i + k - 1]) = w[k]

\* \b(...)\b at i: the end (exclusive) of the match, 0 when there is none.
FillerEnd(s, i) ==
    LET ok == {k \in 1..Len(FillerAlternatives) :
                  /\ MatchesAt(s, i, FillerAlternatives[k])
                  /\ WordBoundary(s, i + Len(FillerAlternatives[k]))}
    IN  IF ~WordBoundary(s, i) \/ ok = {} THEN 0
        ELSE i + Len(FillerAlternatives[CHOOSE k \in ok : \A j \in ok : k <= j])

\* re.sub(r"\b(ряд|row|...)\b", " ", s, flags=re.I), scanning from i.
RECURSIVE SubFiller(_, _)
SubFiller(s, i) ==
    IF i > Len(s) THEN <<>>
    ELSE IF FillerEnd(s, i) # 0
         THEN <<Ch.space>> \o SubFiller(s, FillerEnd(s, i))
         ELSE <<s[i]>> \o SubFiller(s, i + 1)

\* [\.\)\:\-]
NumberingPunct == {Ch.dot, Ch.rparen, Ch.colon, Ch.hyphen}

\* (\d{1,2})\s*[\.\)\:\-] with d digits taken at i: the end, 0 if none.
NumberingTry(s, i, d) ==
    LET j == RunEnd(s, i + d, Whitespace)
    IN  IF /\ i + d - 1 <= Len(s)
           /\ \A k \in 0..(d - 1) : IsDigit(s[i + k])
           /\ j <= Len(s)
           /\ s[j] \in NumberingPunct
        THEN j + 1 ELSE 0

\* (?<!\d)(\d{1,2})\s*[\.\)\:\-] at i: two digits are tried before one.
NumberingEnd(s, i) ==
    IF i > 1 /\ IsDigit(s[i - 1]) THEN 0
    ELSE IF NumberingTry(s, i, 2) # 0 THEN NumberingTry(s, i, 2)
    ELSE NumberingTry(s, i, 1)

\* re.sub(r"(?<!\d)(\d{1,2})\s*[\.\)\:\-]", " ", s), scanning from i.
RECURSIVE SubNumbering(_, _)
SubNumbering(s, i) ==
    IF i > Len(s) THEN <<>>
    ELSE IF NumberingEnd(s, i) # 0
         THEN <<Ch.space>> \o SubNumbering(s, NumberingEnd(s, i))
         ELSE <<s[i]>> \o SubNumbering(s, i + 1)

\* re.sub(r"[\n\r]+", ",", s), scanning from i.
RECURSIVE SubNewlines(_, _)
SubNewlines(s, i) ==
    IF i > Len(s) THEN <<>>
    ELSE IF s[i] \in {Ch.lf, Ch.cr}
         THEN <<Ch.comma>> \o SubNewlines(s, RunEnd(s, i, {Ch.lf, Ch.cr}))
         ELSE <<s[i]>> \o SubNewlines(s, i + 1)

\* xs without the later occurrences of a value: list(dict.fromkeys(xs)).
RECURSIVE Dedup(_, _)
Dedup(xs, seen) ==
    IF xs = <<>> THEN <<>>
    ELSE IF Head(xs) \in seen THEN Dedup(Tail(xs), seen)
    ELSE <<Head(xs)>> \o Dedup(Tail(xs), seen \cup {Head(xs)})

\* _clean_tokens that also drops repeated tokens.
_clean_tokens_Dedup(raw) ==
    LET s0 == Strip(OrEmpty(raw))
        s4 == SubNewlines(SubNumbering(SubFiller(ReplaceSeparators(s0), 1), 1), 1)
        parts == SplitRuns(s4, 1, {Ch.comma, Ch.semicolon}, <<>>)
    IN  IF s0 = <<>> THEN <<>> ELSE Dedup(StripAll(parts), {})

_clean_tokens(raw) ==
    LET s0 == Strip(OrEmpty(raw))
        s1 == ReplaceSeparators(s0)
        s2 == SubFiller(s1, 1)
        s3 == SubNumbering(s2, 1)
        s4 == SubNewlines(s3, 1)
        parts == SplitRuns(s4, 1, {Ch.comma, Ch.semicolon}, <<>>)
    IN  IF s0 = <<>> THEN <<>> ELSE StripAll(parts)

\* FillDefaults that puts each missing default in front of the tokens.
RECURSIVE FillDefaults_Prepend(_, _, _)
FillDefaults_Prepend(tokens, existing, k) ==
    IF k > Len(DEFAULT_NAMES) THEN tokens
    ELSE IF Lower(DEFAULT_NAMES[k]) \notin existing /\ Len(tokens) < 9
         THEN FillDefaults_Prepend(<<DEFAULT_NAMES[k]>> \o tokens,
                                   existing, k + 1)
         ELSE FillDefaults_Prepend(tokens, existing, k + 1)

\* The loop of normalize_potentials_text over DEFAULT_NAMES from index k,
\* with `existing` computed once before the loop.
RECURSIVE FillDefaults(_, _, _)
FillDefaults(tokens, existing, k) ==
    IF k > Len(DEFAULT_NAMES) THEN tokens
    ELSE IF Lower(DEFAULT_NAMES[k]) \notin existing /\ Len(tokens) < 9
         THEN FillDefaults(Append(tokens, DEFAULT_NAMES[k]), existing, k + 1)
         ELSE FillDefaults(tokens, existing, k + 1)

\* PaddedTokens without "tokens = tokens[:9]".
PaddedTokens_NoTruncation(raw) ==
    LET tokens == _clean_tokens(raw)
    IN  FillDefaults(tokens, {Lower(tokens[i]) : i \in 1..Len(tokens)}, 1)

\* The nine tokens normalize_potentials_text (the definition at line 84)
\* formats: truncated to nine, or filled with the defaults.
PaddedTokens(raw) ==
    LET tokens == _clean_tokens(raw)
    IN  IF Len(tokens) >= 9 THEN Slice(tokens, 0, 9)
        ELSE FillDefaults(tokens,
                          {Lower(tokens[i]) : i \in 1..Len(tokens)}, 1)

\* The three f-string lines of normalize_potentials_text (line 84), joined.
normalize_potentials_text_L84(raw) ==
    LET tokens == PaddedTokens(raw)
        a == Slice(tokens, 0, 3)
        b == Slice(tokens, 3, 6)
        c == Slice(tokens, 6, 9)
    IN  <<49, 32, 1088, 1103, 1076, 58, 32, 49, 46, 32>> \o a[1]    \* "1 ряд: 1. "
        \o <<32, 124, 32, 50, 46, 32>> \o a[2]                      \* " | 2. "
        \o <<32, 124, 32, 51, 46, 32>> \o a[3] \o <<Ch.lf>>         \* " | 3. "
        \o <<50, 32, 1088, 1103, 1076, 58, 32, 52, 46, 32>> \o b[1] \* "2 ряд: 4. "
        \o <<32, 124, 32, 53, 46, 32>> \o b[2]                      \* " | 5. "
        \o <<32, 124, 32, 54, 46, 32>> \o b[3] \o <<Ch.lf>>         \* " | 6. "
        \o <<51, 32, 1088, 1103, 1076, 58, 32, 55, 46, 32>> \o c[1] \* "3 ряд: 7. "
        \o <<32, 124, 32, 56, 46, 32>> \o c[2]                      \* " | 8. "
        \o <<32, 124, 32, 57, 46, 32>> \o c[3]                      \* " | 9. "

\* ------------------------------------------------------------------------
\* json.loads: the values and the decoder of the json module
\* ------------------------------------------------------------------------

\* The Python values json.loads returns.  A dict is a function from its
\* keys (strings) to values; a number keeps its literal.
JNull == [t |-> "null"]
JBool(b) == [t |-> "bool", b |-> b]
JNum(text) == [t |-> "num", text |-> text]
JStr(s) == [t |-> "str", s |-> s]
JList(items) == [t |-> "list", items |-> items]
JDict(d) == [t |-> "dict", d |-> d]

\* d[k] = v
DictSet(d, k, v) == [x \in DOMAIN d \cup {k} |-> IF x = k THEN v ELSE d[x]]

\* The result of a decoding step: a failure (an exception of json.loads),
\* or the value read and the position after it.
Fail == [ok |-> FALSE]
Ok(v, e) == [ok |-> TRUE, v |-> v, e |-> e]

\* WHITESPACE of json.decoder: [ \t\n\r]*
JsonWs == {Ch.space, Ch.tab, Ch.lf, Ch.cr}
SkipWs(s, i) == RunEnd(s, i, JsonWs)

\* s has the character c at i.
At(s, i, c) == i <= Len(s) /\ s[i] = c

\* The value of a hexadecimal digit, 16 for any other character.
HexVal(c) ==
    IF c \in 48..57 THEN c - 48
    ELSE IF c \in 97..102 THEN c - 87
    ELSE IF c \in 65..70 THEN c - 55
    ELSE 16

\* The four hexadecimal digits at i as a number, 65536 when they are not.
Hex4(s, i) ==
    IF i + 3 <= Len(s) /\ \A k \in 0..3 : HexVal(s[i + k]) < 16
    THEN 4096 * HexVal(s[i]) + 256 * HexVal(s[i + 1])
         + 16 * HexVal(s[i + 2]) + HexVal(s[i + 3])
    ELSE 65536

\* The character a one-letter escape stands for, 0 when it is none.
EscapeChar(c) ==
    IF c \in {34, 92, 47} THEN c          \* \" \\ \/
    ELSE IF c = 98 THEN 8                  \* \b
    ELSE IF c = 102 THEN 12                \* \f
    ELSE IF c = 110 THEN 10                \* \n
    ELSE IF c = 114 THEN 13                \* \r
    ELSE IF c = 116 THEN 9                 \* \t
    ELSE 0

\* The rest of scanstring after "\u" at i - 2: u is the number of the four
\* digits at i and v that of a following \uXXXX (65536 when there is none);
\* a surrogate pair is one character.
RECURSIVE ScanString(_, _, _)
UnicodeEscape(s, i, acc, u, v) ==
    IF u = 65536 THEN Fail
    ELSE IF u \in 55296..56319 /\ v \in 56320..57343
         THEN ScanString(s, i + 10,
                Append(acc, 65536 + 1024 * (u - 55296) + (v - 56320)))
    ELSE ScanString(s, i + 4, Append(acc, u))

\* scanstring (strict): the characters from i up to the closing quote, with
\* acc read so far.  A control character or a bad escape is an error.
ScanString(s, i, acc) ==
    IF i > Len(s) THEN Fail
    ELSE IF s[i] = 34 THEN Ok(acc, i + 1)
    ELSE IF s[i] < 32 THEN Fail
    ELSE IF s[i] # 92 THEN ScanString(s, i + 1, Append(acc, s[i]))
    ELSE IF i + 1 > Len(s) THEN Fail
    ELSE IF s[i + 1] = 117
         THEN UnicodeEscape(s, i + 2, acc, Hex4(s, i + 2),
                            IF At(s, i + 6, 92) /\ At(s, i + 7, 117)
                            THEN Hex4(s, i + 8) ELSE 65536)
    ELSE IF EscapeChar(s[i + 1]) = 0 THEN Fail
    ELSE ScanString(s, i + 2, Append(acc, EscapeChar(s[i + 1])))

\* s has the literal w at i.
HasLiteral(s, i, w) ==
    i + Len(w) - 1 <= Len(s) /\ SubSeq(s, i, i + Len(w) - 1) = w

\* NUMBER_RE (-?(?:0|[1-9]\d*))(\.\d+)?([eE][-+]?\d+)? in its three groups:
\* the end (exclusive) of each, 0 when the integer part does not match.
IntEnd(s, j) ==
    IF At(s, j, 48) THEN j + 1
    ELSE IF j <= Len(s) /\ s[j] \in 49..57 THEN RunEnd(s, j, 48..57)
    ELSE 0

FracEnd(s, int) ==
    IF int # 0 /\ At(s, int, Ch.dot) /\ int + 1 <= Len(s) /\ IsDigit(s[int + 1])
    THEN RunEnd(s, int + 1, 48..57) ELSE int

ExpDigits(s, frac, sign) ==
    IF sign <= Len(s) /\ IsDigit(s[sign]) THEN RunEnd(s, sign, 48..57)
    ELSE frac

ExpEnd(s, frac) ==
    IF frac # 0 /\ frac <= Len(s) /\ s[frac] \in {69, 101}
    THEN ExpDigits(s, frac,
                   IF frac + 1 <= Len(s) /\ s[frac + 1] \in {43, 45}
                   THEN frac + 2 ELSE frac + 1)
    ELSE frac

NumberEnd(s, i) ==
    ExpEnd(s, FracEnd(s, IntEnd(s, IF At(s, i, Ch.hyphen) THEN i + 1 ELSE i)))

\* The scanner of json.scanner with JSONObject and JSONArray of
\* json.decoder: the value that starts at i.
RECURSIVE ScanOnce(_, _), JSONObject(_, _, _), JSONArray(_, _, _)

\* After a value of an object: '}' ends it, ',' announces another pair.
ObjectNext(s, j, d) ==
    IF At(s, j, 125) THEN Ok(JDict(d), j + 1)
    ELSE IF At(s, j, Ch.comma) THEN JSONObject(s, SkipWs(s, j + 1), d)
    ELSE Fail

ObjectValue(s, k, val, d) ==
    IF val.ok THEN ObjectNext(s, SkipWs(s, val.e), DictSet(d, k, val.v))
    ELSE Fail

ObjectColon(s, k, j, d) ==
    IF At(s, j, Ch.colon)
    THEN ObjectValue(s, k, ScanOnce(s, SkipWs(s, j + 1)), d)
    ELSE Fail

ObjectKey(s, key, d) ==
    IF key.ok THEN ObjectColon(s, key.v, SkipWs(s, key.e), d) ELSE Fail

\* The pairs of an object from the key at i on, with d read so far.
JSONObject(s, i, d) ==
    IF At(s, i, 34) THEN ObjectKey(s, ScanString(s, i + 1, <<>>), d)
    ELSE Fail

\* After a value of an array: ']' ends it, ',' announces another value.
ArrayNext(s, j, items) ==
    IF At(s, j, 93) THEN Ok(JList(items), j + 1)
    ELSE IF At(s, j, Ch.comma) THEN JSONArray(s, SkipWs(s, j + 1), items)
    ELSE Fail

ArrayValue(s, val, items) ==
    IF val.ok THEN ArrayNext(s, SkipWs(s, val.e), Append(items, val.v))
    ELSE Fail

\* The items of an array from the value at i on, with items read so far.
JSONArray(s, i, items) == ArrayValue(s, ScanOnce(s, i), items)

\* A string value from the result of scanstring.
StringValue(r) == IF r.ok THEN Ok(JStr(r.v), r.e) ELSE Fail

\* An object or an array whose first character after the bracket is at j.
ObjectAt(s, j) ==
    IF At(s, j, 125) THEN Ok(JDict(<<>>), j + 1) ELSE JSONObject(s, j, <<>>)

ArrayAt(s, j) ==
    IF At(s, j, 93) THEN Ok(JList(<<>>), j + 1) ELSE JSONArray(s, j, <<>>)

\* A number that NUMBER_RE matches from i to e, or one of the constants
\* NaN, Infinity and -Infinity.
NumberValue(s, i, e) ==
    IF e # 0 THEN Ok(JNum(SubSeq(s, i, e - 1)), e)
    ELSE IF HasLiteral(s, i, <<78, 97, 78>>)                      \* NaN
         THEN Ok(JNum(SubSeq(s, i, i + 2)), i + 3)
    ELSE IF HasLiteral(s, i, <<73, 110, 102, 105, 110, 105, 116, 121>>)
         THEN Ok(JNum(SubSeq(s, i, i + 7)), i + 8)                \* Infinity
    ELSE IF HasLiteral(s, i, <<45, 73, 110, 102, 105, 110, 105, 116, 121>>)
         THEN Ok(JNum(SubSeq(s, i, i + 8)), i + 9)                \* -Infinity
    ELSE Fail

ScanOnce(s, i) ==
    IF i > Len(s) THEN Fail
    ELSE IF s[i] = 34 THEN StringValue(ScanString(s, i + 1, <<>>))
    ELSE IF s[i] = 123 THEN ObjectAt(s, SkipWs(s, i + 1))         \* {
    ELSE IF s[i] = 91 THEN ArrayAt(s, SkipWs(s, i + 1))           \* [
    ELSE IF HasLiteral(s, i, <<110, 117, 108, 108>>) THEN Ok(JNull, i + 4)
    ELSE IF HasLiteral(s, i, <<116, 114, 117, 101>>)
         THEN Ok(JBool(TRUE), i + 4)
    ELSE IF HasLiteral(s, i, <<102, 97, 108, 115, 101>>)
         THEN Ok(JBool(FALSE), i + 5)
    ELSE NumberValue(s, i, NumberEnd(s, i))

\* The value r read from s, unless data follows it.
WholeText(s, r) == IF r.ok /\ SkipWs(s, r.e) = Len(s) + 1 THEN r ELSE Fail

\* json.loads(s): the value, or a failure where it raises (a value that
\* does not parse, or extra data after it).
json_loads(s) == WholeText(s, ScanOnce(s, SkipWs(s, 1)))

\* A number literal that reads as zero: no digit 1..9 before the exponent.
\* (A float that underflows to 0.0, such as 1e-400, is outside the texts
\* considered.)
NumberIsZero(text) ==
    /\ text[1] \in 48..57 \cup {Ch.hyphen}
    /\ text[Len(text)] # 121
    /\ \A i \in 1..Len(text) :
          text[i] \in 49..57 => \E j \in 1..(i - 1) : text[j] \in {69, 101}

\* not v, for a value of json.loads
JFalsy(v) ==
    \/ v.t = "null"
    \/ v.t = "bool" /\ ~v.b
    \/ v.t = "num" /\ NumberIsZero(v.text)
    \/ v.t = "str" /\ v.s = <<>>
    \/ v.t = "list" /\ v.items = <<>>
    \/ v.t = "dict" /\ DOMAIN v.d = {}

\* re.search(r"\{[\s\S]*\}", txt): from the first '{' to the last '}'.
BraceSpan(txt) ==
    LET opens == {i \in 1..Len(txt) : txt[i] = 123}
        first == CHOOSE i \in opens : \A j \in opens : i <= j
        closes == {i \in 1..Len(txt) : txt[i] = 125 /\ i > first}
        last == CHOOSE i \in closes : \A j \in closes : j <= i
    IN  IF opens = {} \/ closes = {} THEN None
        ELSE Str(SubSeq(txt, first, last))

\* _extract_json_from_text(txt): None, or [none |-> FALSE, v |-> value].
Some(v) == [none |-> FALSE, v |-> v]

\* "return json.loads(...)" of a try block for the result r of json.loads:
\* the value (None for the JSON null), or `otherwise` on an exception.
ReturnLoaded(r, otherwise) ==
    IF ~r.ok THEN otherwise
    ELSE IF r.v.t = "null" THEN None
    ELSE Some(r.v)

\* Lines 337-344 for the match m of the pattern.
FromMatch(m) ==
    IF m.none THEN None ELSE ReturnLoaded(json_loads(m.s), None)

\* Lines 330-344 for the stripped text s.
FromText(s) ==
    IF s = <<>> THEN None
    ELSE ReturnLoaded(json_loads(s), FromMatch(BraceSpan(s)))

_extract_json_from_text(txt) == FromText(Strip(OrEmpty(txt)))

\* ------------------------------------------------------------------------
\* normalize_potentials_text as defined again at line 346: the definition
\* the name is bound to once the module is loaded
\* ------------------------------------------------------------------------

\* "\n".join(lines)
RECURSIVE JoinLines(_)
JoinLines(lines) ==
    IF lines = <<>> THEN <<>>
    ELSE IF Len(lines) = 1 THEN Head(lines)
    ELSE Head(lines) \o <<Ch.lf>> \o JoinLines(Tail(lines))

\* [ln.strip() for ln in s.splitlines() if ln.strip()]: the empty lines
\* that splitlines() yields between adjacent boundaries are dropped.
Lines(s2) == StripAll(SplitRuns(s2, 1, LineBreaks, <<>>))

\* s.replace("1.", "\n1.") ... .replace("9.", "\n9."), scanning from i.
RECURSIVE NumberBreaks(_, _)
NumberBreaks(s, i) ==
    IF i > Len(s) THEN <<>>
    ELSE IF s[i] \in 49..57 /\ i < Len(s) /\ s[i + 1] = Ch.dot
         THEN <<Ch.lf, s[i], Ch.dot>> \o NumberBreaks(s, i + 2)
         ELSE <<s[i]>> \o NumberBreaks(s, i + 1)

\* s.replace(",", "\n")
CommaBreaks(s) ==
    [i \in 1..Len(s) |-> IF s[i] = Ch.comma THEN Ch.lf ELSE s[i]]

normalize_potentials_text(raw) ==
    IF Falsy(raw) THEN <<>>
    ELSE LET s == JoinLines(Lines(Strip(raw.s)))
         IN  IF \A i \in 1..Len(s) : s[i] # Ch.lf
             THEN JoinLines(Lines(CommaBreaks(NumberBreaks(s, 1))))
             ELSE s

\* ------------------------------------------------------------------------
\* ai_generate_focus (lines 363-419): what it returns for the content of
\* the response
\* ------------------------------------------------------------------------

\* The keys and the constant strings of the plan.
K ==
    [ weekly_focus |-> <<119, 101, 101, 107, 108, 121, 95, 102, 111, 99, 117, 115>>,
      focus_explainer |-> <<102, 111, 99, 117, 115, 95, 101, 120, 112, 108, 97, 105, 110, 101, 114>>,
      action_blocks |-> <<97, 99, 116, 105, 111, 110, 95, 98, 108, 111, 99, 107, 115>>,
      key |-> <<107, 101, 121>>,
      items |-> <<105, 116, 101, 109, 115>>,
      id |-> <<105, 100>>,
      title |-> <<116, 105, 116, 108, 101>>,
      minutes |-> <<109, 105, 110, 117, 116, 101, 115>>,
      freq |-> <<102, 114, 101, 113>>,
      structure |-> <<115, 116, 114, 117, 99, 116, 117, 114, 101>>,
      focus |-> <<102, 111, 99, 117, 115>>,
      growth |-> <<103, 114, 111, 119, 116, 104>>,
      energy |-> <<101, 110, 101, 114, 103, 121>>,
      daily |-> <<100, 97, 105, 108, 121>> ]

\* "Собрать фокус и ритм"
FallbackFocus ==
    <<1057, 1086, 1073, 1088, 1072, 1090, 1100, 32, 1092, 1086, 1082, 1091,
       1089, 32, 1080, 32, 1088, 1080, 1090, 1084>>

\* "ИИ вернул не-JSON. Я сохранила безопасный фокус. Проверь ключ OpenAI
\* или попробуй ещё раз."
FallbackExplainer ==
    <<1048, 1048, 32, 1074, 1077, 1088, 1085, 1091, 1083, 32, 1085, 1077,
       45, 74, 83, 79, 78, 46, 32, 1071, 32, 1089, 1086, 1093, 1088, 1072,
       1085, 1080, 1083, 1072, 32, 1073, 1077, 1079, 1086, 1087, 1072,
       1089, 1085, 1099, 1081, 32, 1092, 1086, 1082, 1091, 1089, 46, 32,
       1055, 1088, 1086, 1074, 1077, 1088, 1100, 32, 1082, 1083, 1102,
       1095, 32, 79, 112, 101, 110, 65, 73, 32, 1080, 1083, 1080, 32, 1087,
       1086, 1087, 1088, 1086, 1073, 1091, 1081, 32, 1077, 1097, 1105, 32,
       1088, 1072, 1079, 46>>

\* The titles of the four items of the fallback, in the order of the blocks:
\* "15 минут план дня (1–3 приоритета)"
\* "1 шаг к цели (самый маленький)"
\* "10 минут обучение/чтение по теме"
\* "Прогулка/вода/сон — 1 улучшение"
FallbackTitles ==
    << <<49, 53, 32, 1084, 1080, 1085, 1091, 1090, 32, 1087, 1083, 1072,
          1085, 32, 1076, 1085, 1103, 32, 40, 49, 8211, 51, 32, 1087, 1088,
          1080, 1086, 1088, 1080, 1090, 1077, 1090, 1072, 41>>,
       <<49, 32, 1096, 1072, 1075, 32, 1082, 32, 1094, 1077, 1083, 1080,
          32, 40, 1089, 1072, 1084, 1099, 1081, 32, 1084, 1072, 1083, 1077,
          1085, 1100, 1082, 1080, 1081, 41>>,
       <<49, 48, 32, 1084, 1080, 1085, 1091, 1090, 32, 1086, 1073, 1091,
          1095, 1077, 1085, 1080, 1077, 47, 1095, 1090, 1077, 1085, 1080,
          1077, 32, 1087, 1086, 32, 1090, 1077, 1084, 1077>>,
       <<1055, 1088, 1086, 1075, 1091, 1083, 1082, 1072, 47, 1074, 1086,
          1076, 1072, 47, 1089, 1086, 1085, 32, 8212, 32, 49, 32, 1091,
          1083, 1091, 1095, 1096, 1077, 1085, 1080, 1077>> >>

\* The minutes of the four items of the fallback (15, 20, 10, 15).
FallbackMinutes == << <<49, 53>>, <<50, 48>>, <<49, 48>>, <<49, 53>> >>

\* The keys of the four blocks, in order.
BlockKeys == <<K.structure, K.focus, K.growth, K.energy>>

\* A dict literal: the pairs << <<k1, v1>>, <<k2, v2>>, ... >> as a dict.
DictOf(pairs) ==
    [k \in {pairs[i][1] : i \in 1..Len(pairs)} |->
        pairs[CHOOSE i \in 1..Len(pairs) :
                 /\ pairs[i][1] = k
                 /\ \A j \in (i + 1)..Len(pairs) : pairs[j][1] # k][2]]

\* The dict returned at lines 407-417, with ids[b] the secrets.token_hex(6)
\* of block b.
FallbackPlan(ids) ==
    JDict(DictOf(<<
        <<K.weekly_focus, JStr(FallbackFocus)>>,
        <<K.focus_explainer, JStr(FallbackExplainer)>>,
        <<K.action_blocks,
          JList([b \in 1..4 |->
              JDict(DictOf(<<
                  <<K.key, JStr(BlockKeys[b])>>,
                  <<K.items,
                    JList(<< JDict(DictOf(<<
                        <<K.id, JStr(ids[b])>>,
                        <<K.title, JStr(FallbackTitles[b])>>,
                        <<K.minutes, JNum(FallbackMinutes[b])>>,
                        <<K.freq, JStr(K.daily)>> >>)) >>)>> >>))])>> >>))

\* "return data" without the "if not data" test: None is returned as it is
\* (the JSON null here).
Returned_NoFallback(data, ids) == IF data.none THEN JNull ELSE data.v

\* Lines 406-419: the fallback for a falsy data, else data.
Returned(data, ids) ==
    IF data.none \/ JFalsy(data.v) THEN FallbackPlan(ids) ELSE data.v

\* Lines 404-419: txt, data and the value returned, for the content of the
\* first choice of the response (None or a string).
ai_generate_focus(content, ids) ==
    Returned(_extract_json_from_text(Str(Strip(OrEmpty(content)))), ids)

\* ------------------------------------------------------------------------
\* The plan of ai_generate_focus applied to the profile (lines 879-914) and
\* the editors of the blocks (lines 923-953)
\* ------------------------------------------------------------------------

\* A value computed, where Fail stands for an exception.
Got(v) == [ok |-> TRUE, v |-> v]

\* d.get(k, default) for a dict d of the response.
JGet(d, k, default) == IF k \in DOMAIN d.d THEN d.d[k] ELSE default

\* (v or default).strip(): a truthy v that is no string has no strip.
StripOr(v, default) ==
    IF JFalsy(v) THEN Got(Strip(default))
    ELSE IF v.t = "str" THEN Got(Strip(v.s))
    ELSE Fail

\* The number a string of decimal digits denotes.
RECURSIVE DigitsValue(_)
DigitsValue(ds) ==
    IF ds = <<>> THEN 0
    ELSE 10 * DigitsValue(SubSeq(ds, 1, Len(ds) - 1)) + (ds[Len(ds)] - 48)

\* The digits of `text` from position i up to the first character that is
\* no digit.
RECURSIVE DigitsFrom(_, _)
DigitsFrom(text, i) ==
    IF i > Len(text) \/ text[i] \notin 48..57 THEN <<>>
    ELSE <<text[i]>> \o DigitsFrom(text, i + 1)

\* int(x) for the text of a number literal without exponent: the integer
\* part, with its sign (int truncates a float towards zero).  "NaN" and
\* the infinities raise.
IntOfNumber(text) ==
    IF text[1] = Ch.hyphen
    THEN IF Len(text) > 1 /\ text[2] \in 48..57
         THEN Got(0 - DigitsValue(DigitsFrom(text, 2)))
         ELSE Fail
    ELSE IF text[1] \in 48..57 THEN Got(DigitsValue(DigitsFrom(text, 1)))
    ELSE Fail

\* int(s) for a string: blanks around, a sign, and decimal digits only.
\* (Underscores between digits and digits outside ASCII are not among the
\* strings considered.)
IntOfDigits(s, from) ==
    IF from <= Len(s) /\ \A i \in from..Len(s) : s[i] \in 48..57
    THEN Got(DigitsValue(SubSeq(s, from, Len(s))))
    ELSE Fail

Negated(r) == IF r.ok THEN Got(0 - r.v) ELSE r

IntOfString(s) ==
    IF s = <<>> THEN Fail
    ELSE IF s[1] = Ch.hyphen THEN Negated(IntOfDigits(s, 2))
    ELSE IF s[1] = 43 THEN IntOfDigits(s, 2)
    ELSE IntOfDigits(s, 1)

\* int(v or 15)
IntOr15(v) ==
    IF JFalsy(v) THEN Got(15)
    ELSE IF v.t = "num" THEN IntOfNumber(v.text)
    ELSE IF v.t = "str" THEN IntOfString(Strip(v.s))
    ELSE IF v.t = "bool" THEN Got(1)
    ELSE Fail

\* secrets.token_hex(6) for item j of block b of the response: "t" and the
\* two positions, a token no other position gets.
token_hex(b, j) == JStr(<<116, 48 + b, 48 + j>>)

\* The dict of lines 903-908, when its three conversions raise nothing.
NormOf(tid, title, minutes, freq) ==
    IF title.ok /\ minutes.ok /\ freq.ok
    THEN Got([id |-> tid, title |-> title.v, minutes |-> minutes.v,
              freq |-> freq.v])
    ELSE Fail

\* Lines 902-908 for the item `it` of the response, with the token drawn
\* when it has no id.
NormItem(it, token) ==
    IF it.t # "dict" THEN Fail
    ELSE NormOf(IF JFalsy(JGet(it, K.id, JNull)) THEN token
                ELSE JGet(it, K.id, JNull),
                StripOr(JGet(it, K.title, JNull), <<>>),
                IntOr15(JGet(it, K.minutes, JNull)),
                StripOr(JGet(it, K.freq, JNull), K.daily))

\* Lines 900-908: norm for the elements of block b of the response.
NormAll(elems, b) ==
    IF \A j \in 1..Len(elems) : NormItem(elems[j], token_hex(b, j)).ok
    THEN Got([j \in 1..Len(elems) |-> NormItem(elems[j], token_hex(b, j)).v])
    ELSE Fail

\* "b.get("items", []) or []" as the loop of line 901 runs over it: a
\* truthy value that is no list raises there or at its first element.
ItemsOf(v) ==
    IF JFalsy(v) THEN Got(<<>>)
    ELSE IF v.t = "list" THEN Got(v.items)
    ELSE Fail

\* The value of out.get("action_blocks", []) as the loop of line 896 runs
\* over it: an empty dict or string gives no element, a non-empty one an
\* element without get, None and numbers are not iterable.
BlocksOf(v) ==
    IF v.t = "list" THEN Got(v.items)
    ELSE IF v.t \in {"dict", "str"} /\ JFalsy(v) THEN Got(<<>>)
    ELSE Fail

\* blocks_by_key[k]: the last block of the profile with the key k, 0 when
\* there is none.
BlockByKey(blocks, k) ==
    IF \A i \in 1..Len(blocks) : blocks[i].key # k THEN 0
    ELSE CHOOSE i \in 1..Len(blocks) :
            /\ blocks[i].key = k
            /\ \A j \in (i + 1)..Len(blocks) : blocks[j].key # k

\* Line 909 with every block of the profile given the items.
Replaced_All(blocks, i, norm) ==
    [x \in 1..Len(blocks) |-> [blocks[x] EXCEPT !.items = norm]]

\* Line 909: blocks_by_key[k]["items"] = norm, for the block at index i.
Replaced(blocks, i, norm) == [blocks EXCEPT ![i].items = norm]

\* The try block is followed as a record t: the action blocks of the
\* profile so far, and ok until a statement raises.
Stored(t, i, norm) ==
    IF norm.ok THEN [t EXCEPT !.blocks = Replaced(@, i, norm.v)]
    ELSE [t EXCEPT !.ok = FALSE]

\* Lines 897-909 for a block of the response that is a dict with the key k
\* (line 898: a list or a dict cannot be looked up, it is unhashable).
ApplyKey(t, bl, b, k) ==
    IF k.t \in {"list", "dict"} THEN [t EXCEPT !.ok = FALSE]
    ELSE IF k.t # "str" \/ BlockByKey(t.blocks, k.s) = 0 THEN t
    ELSE IF ~ItemsOf(JGet(bl, K.items, JList(<<>>))).ok
         THEN [t EXCEPT !.ok = FALSE]
    ELSE Stored(t, BlockByKey(t.blocks, k.s),
                NormAll(ItemsOf(JGet(bl, K.items, JList(<<>>))).v, b))

\* Lines 897-909 for block b of the response.
ApplyBlock(t, bl, b) ==
    IF ~t.ok THEN t
    ELSE IF bl.t # "dict" THEN [t EXCEPT !.ok = FALSE]
    ELSE ApplyKey(t, bl, b, JGet(bl, K.key, JNull))

\* Lines 896-909: the blocks of the response from the b-th on.
RECURSIVE ApplyBlocks(_, _, _)
ApplyBlocks(t, bls, b) ==
    IF b > Len(bls) THEN t
    ELSE ApplyBlocks(ApplyBlock(t, bls[b], b), bls, b + 1)

\* Lines 895-909 for the dict r of the profile.
BlocksApplied(r, bls) ==
    IF ~bls.ok THEN [ok |-> FALSE, r |-> r]
    ELSE [ok |-> ApplyBlocks([ok |-> TRUE, blocks |-> r.action_blocks],
                             bls.v, 1).ok,
          r |-> [r EXCEPT !.action_blocks =
                    ApplyBlocks([ok |-> TRUE, blocks |-> @], bls.v, 1).blocks]]

\* Lines 893-909, after r["weekly_focus"] was assigned.
ExplainerSet(r, out, fe) ==
    IF ~fe.ok THEN [ok |-> FALSE, r |-> r]
    ELSE BlocksApplied(DictSet(r, "focus_explainer", fe.v),
                       BlocksOf(JGet(out, K.action_blocks, JList(<<>>))))

\* Lines 892-909, for a dict out.
FocusSet(r, out, wf) ==
    IF ~wf.ok THEN [ok |-> FALSE, r |-> r]
    ELSE ExplainerSet(DictSet(r, "weekly_focus", wf.v), out,
                      StripOr(JGet(out, K.focus_explainer, JStr(<<>>)), <<>>))

\* Lines 892-909 for the value out that ai_generate_focus returned: r as
\* the statements leave it, and whether none of them raised (a value that
\* is no dict has no get).
apply_plan(r, out) ==
    IF out.t # "dict" THEN [ok |-> FALSE, r |-> r]
    ELSE FocusSet(r, out, StripOr(JGet(out, K.weekly_focus, JStr(<<>>)), <<>>))

\* ------------------------------------------------------------------------
\* SPCH / Personal Potentials: parsing + report
\* ------------------------------------------------------------------------

\* (x or "").strip(" \t\r\n-–—•*,:;").strip()
_clean_pot_name(x) ==
    Strip(StripChars(x, {Ch.space, Ch.tab, Ch.cr, Ch.lf, Ch.hyphen, Ch.endash,
                         Ch.emdash, Ch.bullet, Ch.star, Ch.comma, Ch.colon,
                         Ch.semicolon}))

\* The digits of the f-string {n} for n in 1..10.
Decimal(n) == IF n < 10 THEN <<48 + n>> ELSE <<48 + (n \div 10), 48 + (n % 10)>>

\* The literal w matches s at i (case-sensitive).
LiteralAt(s, i, w) ==
    /\ i >= 1
    /\ i + Len(w) - 1 <= Len(s)
    /\ \A k \in 1..Len(w) : s[i + k - 1] = w[k]

\* {n}\s*[\.\)] matches s at j.
MarkerAt(s, j, n) ==
    LET k == RunEnd(s, j + Len(Decimal(n)), Whitespace)
    IN  /\ LiteralAt(s, j, Decimal(n))
        /\ k <= Len(s)
        /\ s[k] \in {Ch.dot, Ch.rparen}

\* $ without re.M at position j: the end, or just before a final newline.
AtEnd(s, j) == j = Len(s) + 1 \/ (j = Len(s) /\ s[j] = Ch.lf)

\* (?=(?:\n|\s)(?:{i+1}\s*[\.\)]|$)) at position e.
LookaheadAt(s, e, i) ==
    /\ e <= Len(s)
    /\ IsSpace(s[e])
    /\ (MarkerAt(s, e + 1, i + 1) \/ AtEnd(s, e + 1))

\* (.+?)(?=...) with the group starting at g: the least end e (exclusive
\* of the group) at which the lookahead holds, 0 when there is none.
GroupEnd(s, g, i) ==
    LET ends == {e \in (g + 1)..Len(s) : LookaheadAt(s, e, i)}
    IN  IF ends = {} THEN 0 ELSE CHOOSE e \in ends : \A f \in ends : e <= f

\* {i}\s*[\.\)]\s*(.+?)(?=...) with the number at d: the group matched
\* (None when there is no match). The second \s* is greedy and gives
\* characters back one at a time.
MarkerGroup(s, d, i) ==
    LET k == RunEnd(s, d + 1, Whitespace)
        g == RunEnd(s, k + 1, Whitespace)
        starts == {h \in (k + 1)..g : GroupEnd(s, h, i) # 0}
        h == CHOOSE x \in starts : \A y \in starts : x >= y
    IN  IF ~MarkerAt(s, d, i) \/ starts = {} THEN None
        ELSE Str(SubSeq(s, h, GroupEnd(s, h, i) - 1))

\* The match attempted at position p: (?:^|\n|\s) tries ^ first.
NumberedAt(s, p, i) ==
    IF p = 1 /\ ~MarkerGroup(s, 1, i).none THEN MarkerGroup(s, 1, i)
    ELSE IF p <= Len(s) /\ IsSpace(s[p]) THEN MarkerGroup(s, p + 1, i)
    ELSE None

\* re.search(...) for the number i: the group of the leftmost match.
NumberedSearch(s, i) ==
    LET hits == {p \in 1..Len(s) : ~NumberedAt(s, p, i).none}
    IN  IF hits = {} THEN None
        ELSE NumberedAt(s, CHOOSE p \in hits : \A q \in hits : p <= q, i)

\* The loop "for i in range(1, 10)" from i on.
RECURSIVE Numbered(_, _)
Numbered(s, i) ==
    IF i > 9 THEN <<>>
    ELSE LET m == NumberedSearch(s, i)
         IN  (IF ~m.none /\ _clean_pot_name(m.s) # <<>>
              THEN <<_clean_pot_name(m.s)>> ELSE <<>>)
             \o Numbered(s, i + 1)

\* re.sub(r"[••]", "\n", s) then .replace(";", "\n").replace(",", "\n")
BreakLines(s) ==
    [i \in 1..Len(s) |->
        IF s[i] \in {Ch.bullet, Ch.semicolon, Ch.comma} THEN Ch.lf ELSE s[i]]

\* re.sub(r"^\d+\s*[\.\)]\s*", "", ln).strip()
StripLeadingNumber(ln) ==
    LET j == RunEnd(ln, 1, 48..57)
        k == RunEnd(ln, j, Whitespace)
    IN  IF j > 1 /\ k <= Len(ln) /\ ln[k] \in {Ch.dot, Ch.rparen}
        THEN Strip(SubSeq(ln, RunEnd(ln, k + 1, Whitespace), Len(ln)))
        ELSE Strip(ln)

\* ln.split(c)[0]
RECURSIVE Before(_, _)
Before(ln, c) ==
    IF ln = <<>> \/ Head(ln) = c THEN <<>>
    ELSE <<Head(ln)>> \o Before(Tail(ln), c)

\* The loop that fills `cleaned`: the left part of "Аметист - ...".
RECURSIVE Cleaned(_)
Cleaned(lines) ==
    IF lines = <<>> THEN <<>>
    ELSE LET ln == Strip(Before(Before(StripLeadingNumber(Head(lines)),
                                       Ch.emdash), Ch.hyphen))
         IN  (IF ln # <<>> THEN <<_clean_pot_name(ln)>> ELSE <<>>)
             \o Cleaned(Tail(lines))

\* \s{2,}|\s*,\s*|\s*\|\s*|\s*/\s* at i: the end of the match, 0 if none.
RowSeparatorEnd(ln, i) ==
    LET w == RunEnd(ln, i, Whitespace)
    IN  IF w - i >= 2 THEN w
        ELSE IF w <= Len(ln) /\ ln[w] \in {Ch.comma, Ch.pipe, Ch.slash}
             THEN RunEnd(ln, w + 1, Whitespace)
             ELSE 0

\* re.split(r"\s{2,}|\s*,\s*|\s*\|\s*|\s*/\s*", ln), scanning from i.
RECURSIVE SplitRow(_, _, _)
SplitRow(ln, i, piece) ==
    IF i > Len(ln) THEN <<piece>>
    ELSE IF RowSeparatorEnd(ln, i) # 0
         THEN <<piece>> \o SplitRow(ln, RowSeparatorEnd(ln, i), <<>>)
         ELSE SplitRow(ln, i + 1, Append(piece, ln[i]))

\* The parts of one line in the "3 lines of 3" branch.
RowParts(line) ==
    LET ln == StripLeadingNumber(line)
        parts == StripAll(SplitRow(ln, 1, <<>>))
    IN  IF Len(parts) = 1
        THEN StripAll(SplitRuns(ln, 1, Whitespace, <<>>))   \* ln.split()
        ELSE parts

RECURSIVE Flatten(_)
Flatten(lines) ==
    IF lines = <<>> THEN <<>>
    ELSE RowParts(Head(lines)) \o Flatten(Tail(lines))

\* [_clean_pot_name(x) for x in tmp if _clean_pot_name(x)]
CleanNames(tmp) == NonEmpty([i \in 1..Len(tmp) |-> _clean_pot_name(tmp[i])])

parse_potentials_9(raw) ==
    LET s == Strip(OrEmpty(raw))
        numbered == Numbered(s, 1)
        lines == Lines(BreakLines(s))
        flat == NonEmpty(Cleaned(lines))
        tmp == CleanNames(Flatten(lines))
    IN  IF Falsy(raw) THEN <<>>
        ELSE IF Len(numbered) >= 9 THEN Slice(numbered, 0, 9)
        ELSE IF Len(flat) < 9 /\ Len(lines) \in {3, 6, 9} /\ Len(tmp) >= 9
             THEN Slice(tmp, 0, 9)
        ELSE Slice(flat, 0, 9)

build_matrix_md(p9) ==
    IF Len(p9) < 9
    THEN IF p9 = <<>> THEN <<Ch.emdash>>
         ELSE JoinLines([i \in 1..Len(p9) |-> <<45, 32>> \o p9[i]])  \* "- x"
    ELSE JoinLines(<<
        \* "| Ряд | Восприятие | Мотивация | Инструмент |"
        <<124, 32, 1056, 1103, 1076, 32, 124, 32, 1042, 1086, 1089, 1087,
          1088, 1080, 1103, 1090, 1080, 1077, 32, 124, 32, 1052, 1086, 1090,
          1080, 1074, 1072, 1094, 1080, 1103, 32, 124, 32, 1048, 1085, 1089,
          1090, 1088, 1091, 1084, 1077, 1085, 1090, 32, 124>>,
        \* "|---|---|---|---|"
        <<124, 45, 45, 45, 124, 45, 45, 45, 124, 45, 45, 45, 124, 45, 45, 45,
          124>>,
        \* "| 1 (ядро / 60%) | {pos1} | {pos2} | {pos3} |"
        <<124, 32, 49, 32, 40, 1103, 1076, 1088, 1086, 32, 47, 32, 54, 48, 37,
          41, 32, 124, 32>> \o p9[1] \o <<32, 124, 32>> \o p9[2]
          \o <<32, 124, 32>> \o p9[3] \o <<32, 124>>,
        \* "| 2 (наполнение / 30%) | {pos4} | {pos5} | {pos6} |"
        <<124, 32, 50, 32, 40, 1085, 1072, 1087, 1086, 1083, 1085, 1077, 1085,
          1080, 1077, 32, 47, 32, 51, 48, 37, 41, 32, 124, 32>> \o p9[4]
          \o <<32, 124, 32>> \o p9[5] \o <<32, 124, 32>> \o p9[6]
          \o <<32, 124>>,
        \* "| 3 (риски / 10%) | {pos7} | {pos8} | {pos9} |"
        <<124, 32, 51, 32, 40, 1088, 1080, 1089, 1082, 1080, 32, 47, 32, 49,
          48, 37, 41, 32, 124, 32>> \o p9[7] \o <<32, 124, 32>> \o p9[8]
          \o <<32, 124, 32>> \o p9[9] \o <<32, 124>> >>)

\* The empty dict {}.
EmptyDict == [k \in {} |-> <<>>]

\* The "pos" entry of build_canon_bundle: {"pos1": pos1, ..., "pos9": pos9}.
PositionalView(p9) ==
    [pos1 |-> p9[1], pos2 |-> p9[2], pos3 |-> p9[3],
     pos4 |-> p9[4], pos5 |-> p9[5], pos6 |-> p9[6],
     pos7 |-> p9[7], pos8 |-> p9[8], pos9 |-> p9[9]]

\* _canon_cell_1_3 and _canon_pos_4_5_6 with the canon tables of line 16
\* (POT_CANON_1_3, POT_4_CANON, ... = {}): every lookup misses and yields
\* the dash.
CanonCell(pot) == <<Ch.emdash>>

build_canon_bundle(p9) ==
    IF Len(p9) < 9 THEN EmptyDict
    ELSE [pos |-> PositionalView(p9),
          canon |-> [pos1 |-> CanonCell(p9[1]), pos2 |-> CanonCell(p9[2]),
                     pos3 |-> CanonCell(p9[3]), pos4 |-> CanonCell(p9[4]),
                     pos5 |-> CanonCell(p9[5]), pos6 |-> CanonCell(p9[6])]]

\* ------------------------------------------------------------------------
\* Inputs
\* ------------------------------------------------------------------------

\* The longest text of the exhaustive family below.
MaxLen == 4

\* The most labels of a list over ListLabels.
MaxShort == 3

\* The most labels of a list of distinct or alternating labels.
MaxLabels == 11

\* The most entries of a list drawn from the default names.
MaxNames == 2

\* a, 1, '.', '-', ',', ' ', line feed and carriage return: a letter, an
\* enumeration digit, the punctuation of numbering, a dash, the list
\* separator, white space and the two line ends.
Alphabet == {97, 49, Ch.dot, Ch.hyphen, Ch.comma, Ch.space, Ch.lf, Ch.cr}

\* Every text over Alphabet of at most MaxLen characters.
ShortTexts == UNION {[1..n -> Alphabet] : n \in 0..MaxLen}

\* sep.join(labels)
RECURSIVE Join(_, _)
Join(labels, sep) ==
    IF labels = <<>> THEN <<>>
    ELSE IF Len(labels) = 1 THEN Head(labels)
    ELSE Head(labels) \o sep \o Join(Tail(labels), sep)

\* The labels x and Yz, and the separators a user writes between labels.
ListLabels == {<<120>>, <<89, 122>>}

ListSeparators == {<<Ch.comma>>, <<Ch.pipe>>, <<Ch.emdash>>, <<Ch.lf>>}

\* Every list of up to MaxShort labels over ListLabels, written with one
\* separator throughout.
ShortLists ==
    {Join(labels, sep) :
        labels \in UNION {[1..n -> ListLabels] : n \in 0..MaxShort},
        sep \in ListSeparators}

\* The letters A, B, C, ...
Letter(k) == <<64 + k>>

\* Lists of up to MaxLabels labels, A, B, C, ... or x, Yz, x, Yz, ...,
\* written with one separator throughout.
LabelLists ==
    {Join([k \in 1..n |-> Letter(k)], sep) :
        n \in 0..MaxLabels, sep \in ListSeparators}
    \cup
    {Join([k \in 1..n |-> IF k % 2 = 1 THEN <<120>> ELSE <<89, 122>>], sep) :
        n \in 0..MaxLabels, sep \in ListSeparators}

\* Default names as the user may type them (гранат in lower case) and a
\* label that is no default name, joined by ", ".
NameChoices ==
    {DEFAULT_NAMES[1], <<1075, 1088, 1072, 1085, 1072, 1090>>,
     DEFAULT_NAMES[9], <<120>>}

NameLists ==
    {Join(names, <<Ch.comma, Ch.space>>) :
        names \in UNION {[1..n -> NameChoices] : n \in 0..MaxNames}}

\* "Аметист, Гранат"
ExTwoNames == Join(<<DEFAULT_NAMES[1], DEFAULT_NAMES[2]>>, <<44, 32>>)

\* "1. Аметист 2) Гранат, 3: Цитрин"
ExNumbered ==
    <<49, 46, 32>> \o DEFAULT_NAMES[1] \o <<32, 50, 41, 32>>
    \o DEFAULT_NAMES[2] \o <<44, 32, 51, 58, 32>> \o DEFAULT_NAMES[3]

\* "Аметист | Гранат — Цитрин"
ExMixed ==
    DEFAULT_NAMES[1] \o <<32, 124, 32>> \o DEFAULT_NAMES[2]
    \o <<32, 8212, 32>> \o DEFAULT_NAMES[3]

\* "Аметист, Гранат, Цитрин"
ExThreeNames ==
    Join(<<DEFAULT_NAMES[1], DEFAULT_NAMES[2], DEFAULT_NAMES[3]>>, <<44, 32>>)

\* "A,B,C,D,E,F,G,H,I"
ExNine == Join([k \in 1..9 |-> Letter(k)], <<Ch.comma>>)

\* "A,B,C,D,E,F,G,H,I,J,K,L"
ExTwelve == Join([k \in 1..12 |-> Letter(k)], <<Ch.comma>>)

\* "1. A 2. B ... n. X", the format of the docstrings
ExEnumerated(n) ==
    Join([k \in 1..n |-> Decimal(k) \o <<Ch.dot, Ch.space>> \o Letter(k)],
         <<Ch.space>>)

\* "A B C\nD E F\nG H I": three lines of three values
ExRows ==
    Join([r \in 1..3 |->
            Join([k \in 1..3 |-> Letter(3 * (r - 1) + k)], <<Ch.space>>)],
         <<Ch.lf>>)

\* "a:,b,c,d,e,f,g,h,i"
ExColon ==
    Join([k \in 1..9 |-> IF k = 1 THEN <<97, Ch.colon>> ELSE <<96 + k>>],
         <<Ch.comma>>)

\* "a,.,b"
ExDot == <<97, 44, 46, 44, 98>>

\* "a,-,b"
ExHyphen == <<97, 44, 45, 44, 98>>

\* "24-hour"
ExHour == <<50, 52, 45, 104, 111, 117, 114>>

\* "5% Рубин"
ExPercent == <<53, 37, 32>> \o DEFAULT_NAMES[9]

\* "% Рубин"
ExPercentAlone == <<37, 32>> \o DEFAULT_NAMES[9]

Examples ==
    {ExTwoNames, ExNumbered, ExMixed, ExThreeNames, ExNine, ExTwelve,
     ExEnumerated(9), ExEnumerated(10), ExRows, ExColon, ExDot, ExHyphen,
     ExHour, ExPercent, ExPercentAlone}

\* What a caller may pass: None, or any of the texts above.
RawInputs ==
    {None} \cup {Str(s) : s \in ShortTexts \cup ShortLists \cup LabelLists
                               \cup NameLists \cup Examples}

\* The longest response text taken over JsonAlphabet.
MaxJson == 4

\* '{', '}', '"', 'k', ':' and '1': what a small JSON object is made of.
JsonAlphabet == {123, 125, 34, 107, Ch.colon, 49}

\* Every text over JsonAlphabet of at most MaxJson characters.
JsonTexts == UNION {[1..n -> JsonAlphabet] : n \in 0..MaxJson}

\* '{"k":1}'
ExObject == <<123, 34, 107, 34, 58, 49, 125>>

\* 'x {"k":1} y'
ExEmbedded == <<120, 32, 123, 34, 107, 34, 58, 49, 125, 32, 121>>

\* '```json\n{"k":1}\n```'
ExFenced == <<96, 96, 96, 106, 115, 111, 110, 10, 123, 34, 107, 34, 58, 49, 125, 10, 96, 96, 96>>

\* '{"k":1} {"k":1}'
ExTwoObjects == <<123, 34, 107, 34, 58, 49, 125, 32, 123, 34, 107, 34, 58, 49, 125>>

\* '[1]'
ExArray == <<91, 49, 93>>

\* 'null'
ExNull == <<110, 117, 108, 108>>

\* '{}'
ExEmptyObject == <<123, 125>>

\* '0'
ExZero == <<48>>

\* '"a"'
ExString == <<34, 97, 34>>

\* 'true'
ExTrue == <<116, 114, 117, 101>>

\* '{"weekly_focus":"x"}'
ExFocus == <<123, 34, 119, 101, 101, 107, 108, 121, 95, 102, 111, 99, 117, 115, 34, 58, 34, 120, 34, 125>>

\* 'Sorry, no plan.'
ExProse == <<83, 111, 114, 114, 121, 44, 32, 110, 111, 32, 112, 108, 97, 110, 46>>

ResponseExamples ==
    {ExObject, ExEmbedded, ExFenced, ExTwoObjects, ExArray, ExNull, ExEmptyObject, ExZero, ExString, ExTrue, ExFocus, ExProse}

\* resp.choices[0].message.content: None, or a text.
Responses == {None} \cup {Str(s) : s \in JsonTexts \cup ResponseExamples}

\* Two values secrets.token_hex(6) may return.
TokenIds ==
    {<<48, 97, 49, 98, 50, 99, 51, 100, 52, 101, 53, 102>>,      \* "0a1b2c3d4e5f"
     <<102, 102, 48, 48, 102, 102, 48, 48, 102, 102, 48, 48>>}   \* "ff00ff00ff00"

\* ------------------------------------------------------------------------
\* Accounts, profiles and the session (lines 45-55, 121-234, 690-772,
\* 1016-1083)
\* ------------------------------------------------------------------------

\* _pbkdf2_hash(password, salt): PBKDF2-HMAC-SHA256 taken as free of
\* collisions, so that a digest stands for the pair it was derived from.
_pbkdf2_hash(password, salt) == <<password, salt>>

\* verify_password that accepts every password.
verify_password_Any(password, salt, pw_hash) == TRUE

\* secrets.compare_digest(_pbkdf2_hash(password, salt), pw_hash)
verify_password(password, salt, pw_hash) ==
    _pbkdf2_hash(password, salt) = pw_hash

\* datetime.date: a date is its proleptic Gregorian ordinal (toordinal()).
_is_leap(y) == y % 4 = 0 /\ (y % 100 # 0 \/ y % 400 = 0)

_days_before_year(y) ==
    (y - 1) * 365 + (y - 1) \div 4 + (y - 1) \div 400 - (y - 1) \div 100

_days_in_month(y, m) ==
    IF m = 2 /\ _is_leap(y) THEN 29
    ELSE <<31, 28, 31, 30, 31, 30, 31, 31, 30, 31, 30, 31>>[m]

RECURSIVE _days_before_month(_, _)
_days_before_month(y, m) ==
    IF m = 1 THEN 0
    ELSE _days_before_month(y, m - 1) + _days_in_month(y, m - 1)

\* n written with w decimal digits ("%0wd").
Dec(n, w) == [i \in 1..w |-> 48 + ((n \div (10 ^ (w - i))) % 10)]

\* The month and the day of the n-th day of year y, then "%04d-%02d-%02d".
IsoInMonth(y, m, n) ==
    Dec(y, 4) \o <<Ch.hyphen>> \o Dec(m, 2) \o <<Ch.hyphen>>
        \o Dec(n - _days_before_month(y, m), 2)

IsoInYear(y, n) ==
    IsoInMonth(y, CHOOSE m \in 1..12 :
                      /\ _days_before_month(y, m) < n
                      /\ n <= _days_before_month(y, m) + _days_in_month(y, m),
               n)

\* The year of the date with ordinal d.
YearOf(d) ==
    CHOOSE y \in ((d - 1) \div 366 + 1)..((d - 1) \div 365 + 1) :
        _days_before_year(y) < d /\ d <= _days_before_year(y + 1)

\* date.isoformat() of the date with ordinal d.
isoformat(d) == IsoInYear(YearOf(d), d - _days_before_year(YearOf(d)))

\* date.weekday(): Monday is 0.
weekday(d) == (d + 6) % 7

\* monday_of_week(d) returning d itself.
monday_of_week_Today(d) == d

\* monday_of_week(d) = d.fromordinal(d.toordinal() - d.weekday())
monday_of_week(d) == d - weekday(d)

\* datetime.utcnow().isoformat() + "Z": the instant is not modelled, every
\* timestamp is the one token.
Stamp == "utcnow"

\* dict.setdefault(k, v) and "k in d and d[k] == v" for d.get(k) == v.
SetDefault(d, k, v) ==
    [x \in DOMAIN d \cup {k} |-> IF x \in DOMAIN d THEN d[x] ELSE v]

\* The titles of the four action blocks of default_profile.
BlockTitles ==
    << <<1057, 1090, 1088, 1091, 1082, 1090, 1091, 1088, 1072, 32, 1076,
         1085, 1103>>,
       <<1060, 1086, 1082, 1091, 1089, 32, 1085, 1077, 1076, 1077, 1083,
         1080>>,
       <<1056, 1086, 1089, 1090, 32, 1080, 32, 1085, 1072, 1074, 1099, 1082,
         1080>>,
       <<1069, 1085, 1077, 1088, 1075, 1080, 1103, 32, 1080, 32, 1088, 1077,
         1089, 1091, 1088, 1089>> >>

\* default_profile(): a dict is a function on its keys, "" and [] are <<>>.
default_profile ==
    [meta |-> [schema |-> "pp.realization.v1",
               created_at |-> Stamp,
               updated_at |-> Stamp],
     foundation |-> [name |-> <<>>, potentials_table |-> <<>>, notes |-> <<>>],
     realization |->
        [point_a |-> <<>>, point_b |-> <<>>, weekly_focus |-> <<>>,
         focus_explainer |-> <<>>,
         action_blocks |->
            [i \in 1..4 |->
                [key |-> BlockKeys[i], title |-> BlockTitles[i],
                 items |-> <<>>]],
         week_start |-> <<>>],
     today |-> [by_date |-> EmptyDict],
     library |-> [potentials_guide |-> <<>>, master_report |-> <<>>,
                  master_report_updated_at |-> <<>>],
     metrics |-> [daily_target |-> 3, weekly_target_days |-> 4]]

\* Lines 166-170, 172-174 and 177-178 of ensure_profile_schema.
EnsureLibrary(p) ==
    [SetDefault(p, "library", EmptyDict) EXCEPT !.library =
        SetDefault(SetDefault(SetDefault(SetDefault(@,
            "potentials_guide", <<>>),
            "extended_report", <<>>),
            "extended_report_updated_at", <<>>),
            "positions", EmptyDict)]

EnsureMetrics(p) ==
    [SetDefault(p, "metrics", EmptyDict) EXCEPT !.metrics =
        SetDefault(SetDefault(@, "weekly_targets", EmptyDict),
                   "monthly_targets", EmptyDict)]

EnsureToday(p) ==
    [SetDefault(p, "today", [by_date |-> EmptyDict]) EXCEPT !.today =
        SetDefault(@, "by_date", EmptyDict)]

\* ensure_profile_schema(profile), for profile None or Some(dict).
ensure_profile_schema(profile) ==
    EnsureToday(EnsureMetrics(EnsureLibrary(
        IF profile.none THEN default_profile ELSE profile.v)))

\* The two setdefault calls of lines 803-804 and 1039-1040.
LegacyDefaults(p) ==
    SetDefault(
        SetDefault(p, "library",
                   [potentials_guide |-> <<>>, master_report |-> <<>>,
                    master_report_updated_at |-> <<>>]),
        "metrics",
        [daily_target |-> 0, weekly_target |-> 0, baseline |-> <<>>,
         weekly_reviews |-> EmptyDict])

\* A run of the script is a record w: the session (authed, user, profile),
\* the tables (users, profiles), what is shown (notice), the profile the
\* first tab handler was given (seen), the value the last datastore call
\* returned (ret), the local u of auth_screen, the number of datastore
\* calls that still succeed (left) and whether an exception ended the run
\* (err).  Every step leaves w as it is once err holds.
Raise(w) == [w EXCEPT !.err = TRUE]

\* st.error / st.success
Notice(w, text) == IF w.err THEN w ELSE [w EXCEPT !.notice = text]

\* "rows[0] if rows else None" for the rows .limit(1) returned.
FirstRow(rows) == IF rows = {} THEN None ELSE Some(CHOOSE r \in rows : TRUE)

\* db_get_user_by_email(email)
db_get_user_by_email(w, email) ==
    IF w.err THEN w
    ELSE IF w.left = 0 THEN Raise(w)
    ELSE [w EXCEPT !.left = @ - 1,
                   !.ret = FirstRow({r \in w.users :
                                        r.email = Strip(Lower(email))})]

\* secrets.token_urlsafe(16): a token that was not drawn before, "s1" for
\* the first user, "s2" for the second.
token_urlsafe(users) == <<115, 49 + Cardinality(users)>>

\* The row db_create_user(email, password) inserts, with the salt drawn
\* and the id the table gives.
NewUser(users, email, password) ==
    [id |-> Cardinality(users) + 1,
     email |-> Strip(Lower(email)),
     salt |-> token_urlsafe(users),
     pw_hash |-> _pbkdf2_hash(password, token_urlsafe(users))]

\* db_create_user(email, password)
db_create_user(w, email, password) ==
    IF w.err THEN w
    ELSE IF w.left = 0 THEN Raise(w)
    ELSE [w EXCEPT !.left = @ - 1,
                   !.users = @ \cup {NewUser(@, email, password)},
                   !.ret = Some(NewUser(w.users, email, password))]

\* db_get_profile(user_id): ret is None or the row's "data".
db_get_profile(w, user_id) ==
    IF w.err THEN w
    ELSE IF w.left = 0 THEN Raise(w)
    ELSE [w EXCEPT !.left = @ - 1,
                   !.ret = IF user_id \in DOMAIN w.profiles
                           THEN Some(w.profiles[user_id]) ELSE None]

\* data["meta"]["updated_at"] = ...
Touched(data) == [data EXCEPT !.meta = DictSet(@, "updated_at", Stamp)]

\* db_upsert_profile(user_id, data): ret is data as the call left it (a
\* KeyError without "meta", updated in place otherwise).
db_upsert_profile(w, user_id, data) ==
    IF w.err THEN w
    ELSE IF "meta" \notin DOMAIN data THEN Raise([w EXCEPT !.ret = Some(data)])
    ELSE IF w.left = 0 THEN Raise([w EXCEPT !.ret = Some(Touched(data))])
    ELSE [w EXCEPT !.left = @ - 1,
                   !.ret = Some(Touched(data)),
                   !.profiles = DictSet(@, user_id, Touched(data))]

\* "not st.session_state.profile": None or {}.
NoProfile(profile) == profile.none \/ DOMAIN profile.v = {}

\* The session's profile is the object db_upsert_profile updated.
InPlace(w) == [w EXCEPT !.profile = w.ret]

\* save_profile()
save_profile(w) ==
    IF w.err \/ w.user.none \/ NoProfile(w.profile) THEN w
    ELSE InPlace(db_upsert_profile(w, w.user.v.id, w.profile.v))

\* The profile of the session becomes the value returned.
SetProfile(w) == IF w.err THEN w ELSE [w EXCEPT !.profile = w.ret]

\* Lines 724-727 of auth_screen for the user w.u.
MasterProfile(w) ==
    IF w.err THEN w
    ELSE [w EXCEPT !.profile = IF w.ret.none THEN Some(default_profile)
                                ELSE w.ret]

MasterAuthed(w) ==
    IF w.err THEN w
    ELSE MasterProfile(
            db_get_profile([w EXCEPT !.authed = TRUE, !.user = w.u],
                           w.u.v.id))

\* Lines 720-723: the master's user and profile are created.
MasterCreated(w) ==
    IF w.err THEN w
    ELSE db_upsert_profile([w EXCEPT !.u = w.ret], w.ret.v.id,
                           default_profile)

\* Lines 718-728: the button of the master login, with the secrets me and
\* mp.
MasterFound(w, me, mp) ==
    IF w.err THEN w
    ELSE IF w.ret.none
         THEN MasterAuthed(MasterCreated(db_create_user(w, me, mp)))
    ELSE MasterAuthed([w EXCEPT !.u = w.ret])

master_login(w, me, mp) == MasterFound(db_get_user_by_email(w, me), me, mp)

\* Lines 743-749: the profile of the user who logged in.
LoginProfile(w) ==
    IF w.err THEN w
    ELSE IF w.ret.none
         THEN SetProfile(db_upsert_profile(w, w.user.v.id,
                                           default_profile))
    ELSE [w EXCEPT !.profile = w.ret]

\* Lines 737-752: the user found, or not, for the email typed.
LoginFound(w, pw) ==
    IF w.err THEN w
    ELSE IF w.ret.none THEN Notice(w, "user_not_found")
    ELSE IF ~verify_password(pw, w.ret.v.salt, w.ret.v.pw_hash)
         THEN Notice(w, "wrong_password")
    ELSE LoginProfile(
            db_get_profile([w EXCEPT !.authed = TRUE, !.user = w.ret],
                           w.ret.v.id))

\* Lines 735-752: the button of the login form.
form_login(w, email, pw) == LoginFound(db_get_user_by_email(w, email), pw)

\* "Пароль минимум 8 символов": len(pw2) < 8 is refused.
MinPasswordLen == 8

\* The first three tests of lines 758-763 that accept everything but a
\* password mismatch.
SignUpError_AnyPassword(email2, pw2, pw3) ==
    IF pw2 # pw3 THEN "mismatch" ELSE ""

\* The first three tests of lines 758-763: the error shown, "" for none.
SignUpError(email2, pw2, pw3) ==
    IF email2 = <<>> \/ \A i \in 1..Len(email2) : email2[i] # 64
        THEN "bad_email"
    ELSE IF Len(pw2) < MinPasswordLen THEN "short_password"
    ELSE IF pw2 # pw3 THEN "mismatch"
    ELSE ""

\* Lines 767-770: the user and the default profile are created.
SignUpCreated(w) ==
    IF w.err THEN w
    ELSE Notice(db_upsert_profile(w, w.ret.v.id, default_profile),
                "created")

\* Lines 764-770.
SignUpFound(w, email2, pw2) ==
    IF w.err THEN w
    ELSE IF ~w.ret.none THEN Notice(w, "exists")
    ELSE SignUpCreated(db_create_user(w, email2, pw2))

\* Lines 757-770: the button of the sign-up form.
sign_up(w, email2, pw2, pw3) ==
    IF SignUpError(email2, pw2, pw3) # ""
    THEN Notice(w, SignUpError(email2, pw2, pw3))
    ELSE SignUpFound(db_get_user_by_email(w, email2), email2, pw2)

\* Lines 1043-1052: the stored profile, else a default one.
Reloaded(w) ==
    IF w.err THEN w
    ELSE IF ~w.ret.none THEN [w EXCEPT !.profile = w.ret]
    ELSE SetProfile(
            db_upsert_profile(
                [w EXCEPT !.profile = Some(ensure_profile_schema(@))],
                w.user.v.id, default_profile))

\* Lines 1036-1052 of the script: None has no setdefault (AttributeError).
LoadProfile(w) ==
    IF ~NoProfile(w.profile) THEN w
    ELSE IF w.profile.none THEN Raise(w)
    ELSE Reloaded(
            db_get_profile(
                save_profile([w EXCEPT !.profile = Some(LegacyDefaults(@.v))]),
                w.user.v.id))

\* st.text_area(..., value=f.get("potentials_table", "")): the text typed,
\* or the value shown when nothing was typed (typed is None).
TextArea(f, typed) ==
    IF ~typed.none THEN typed.v
    ELSE IF "potentials_table" \in DOMAIN f THEN f.potentials_table
    ELSE <<>>

\* Lines 803-819 of foundation_tab: the defaults and the two fields.
FoundationFields(w, typed) ==
    [w EXCEPT !.seen = w.profile,
              !.profile = Some(
                  [LegacyDefaults(@.v) EXCEPT !.foundation =
                      DictSet(SetDefault(@, "name", <<>>),
                              "potentials_table", TextArea(@, typed))])]

\* Lines 822-827: has_ai is assigned only under the "if" of the preview,
\* so line 827 raises UnboundLocalError for a blank table.  The button of
\* line 829 is not clicked.
PreviewTable(w) ==
    IF Strip(w.profile.v.foundation.potentials_table) = <<>> THEN Raise(w)
    ELSE w

\* foundation_tab(profile) with `typed` in the text area of the table.
foundation_tab(w, typed) ==
    IF w.err THEN w
    ELSE IF "foundation" \notin DOMAIN w.profile.v THEN Raise(w)
    ELSE PreviewTable(FoundationFields(w, typed))

\* ensure_week_initialized(profile) on day d
ensure_week_initialized(w, d) ==
    IF w.err THEN w
    ELSE IF "realization" \notin DOMAIN w.profile.v THEN Raise(w)
    ELSE IF /\ "week_start" \in DOMAIN w.profile.v.realization
            /\ w.profile.v.realization.week_start = isoformat(monday_of_week(d))
         THEN w
    ELSE save_profile(
            [w EXCEPT !.profile = Some(
                [@.v EXCEPT !.realization =
                    DictSet(@, "week_start", isoformat(monday_of_week(d)))])])

\* st.text_area(label, value=r.get(k, "")): the text typed, or the value
\* shown when nothing was typed.
Field(r, k, typed) ==
    IF ~typed.none THEN typed.v
    ELSE IF k \in DOMAIN r THEN r[k]
    ELSE <<>>

\* Lines 866-868 of realization_tab: the text areas of the two points, with
\* a and b typed into them.
PointFields(w, a, b) ==
    IF w.err THEN w
    ELSE [w EXCEPT !.profile = Some(
            [@.v EXCEPT !.realization =
                DictSet(DictSet(@, "point_a", Field(@, "point_a", a)),
                        "point_b",
                        Field(w.profile.v.realization, "point_b", b))])]

\* Lines 892-909 on the profile of the run: err when a statement raised.
Applied(w, out) ==
    [w EXCEPT !.profile = Some(
                [@.v EXCEPT !.realization = apply_plan(@, out).r]),
              !.err = ~apply_plan(w.profile.v.realization, out).ok]

\* Lines 910-911: save_profile() and the success message.
PlanSaved(w) == Notice(save_profile(w), "plan_created")

\* Lines 913-914: "except Exception" shows the error, the run goes on.
Caught(w) ==
    IF w.err THEN [w EXCEPT !.err = FALSE, !.notice = "ai_error"] ELSE w

\* "not x.get(k, "").strip()" for the dict x of the profile.
Blank(x, k) == k \notin DOMAIN x \/ Strip(x[k]) = <<>>

\* Lines 879-914: the button of the plan is clicked, and ai_generate_focus
\* raises (res is None) or returns res.v.
plan_button(w, res) ==
    IF w.err THEN w
    ELSE IF Blank(w.profile.v.foundation, "potentials_table")
         THEN Notice(w, "need_potentials")
    ELSE IF \/ Blank(w.profile.v.realization, "point_a")
            \/ Blank(w.profile.v.realization, "point_b")
         THEN Notice(w, "need_points")
    ELSE IF res.none THEN Notice(w, "ai_error")
    ELSE Caught(PlanSaved(Applied(w, res.v)))

\* Lines 939-946 for the row `it` of an editor nobody touched.
EditedItem(it, token) ==
    [id |-> IF JFalsy(it.id) THEN token ELSE it.id,
     title |-> Strip(it.title),
     minutes |-> IF it.minutes = 0 THEN 15 ELSE it.minutes,
     freq |-> IF it.freq = <<>> THEN K.daily ELSE Strip(it.freq)]

\* Lines 924-947 for the i-th block b of the profile.
EditedBlock(b, i) ==
    [b EXCEPT !.items =
        [j \in 1..Len(@) |-> EditedItem(b.items[j], token_hex(i, j))]]

\* Lines 923-953: the items of every block become the rows of its editor.
Editors(w) ==
    IF w.err THEN w
    ELSE IF "action_blocks" \notin DOMAIN w.profile.v.realization THEN Raise(w)
    ELSE [w EXCEPT !.profile = Some(
            [@.v EXCEPT !.realization.action_blocks =
                [i \in 1..Len(@) |-> EditedBlock(@[i], i)]])]

\* The rest of realization_tab(profile) when no widget was touched.
RealizationFields(w) == Editors(PointFields(w, None, None))

realization_tab(w, d) == RealizationFields(ensure_week_initialized(w, d))

\* Lines 966-970 of today_tab: the ids of the rows with a title and the
\* freq "daily", as the pairs <<block, row>>.
Tasks(blocks) ==
    {x \in UNION {{<<i, j>> : j \in 1..Len(blocks[i].items)} :
                     i \in 1..Len(blocks)} :
        /\ blocks[x[1]].items[x[2]].title # <<>>
        /\ blocks[x[1]].items[x[2]].freq = K.daily}

\* f"{tid}" for an id that is a string, an integer or a boolean.
FormatId(tid) ==
    IF tid.t = "str" THEN tid.s
    ELSE IF tid.t = "num" THEN tid.text
    ELSE IF tid.t = "bool" /\ tid.b THEN <<84, 114, 117, 101>>
    ELSE <<70, 97, 108, 115, 101>>

\* Lines 978-982: done_map.get(tid) raises for an id that cannot be hashed,
\* st.checkbox for a key that another checkbox of the run has.
TasksRaise(blocks) ==
    \/ \E x \in Tasks(blocks) :
          blocks[x[1]].items[x[2]].id.t \in {"list", "dict"}
    \/ \E x, y \in Tasks(blocks) :
          /\ x # y
          /\ FormatId(blocks[x[1]].items[x[2]].id)
                = FormatId(blocks[y[1]].items[y[2]].id)

\* The rest of today_tab(profile) when no widget was touched: nothing is
\* written.
TodayFields(w) ==
    IF w.err THEN w
    ELSE IF \/ "today" \notin DOMAIN w.profile.v
            \/ "by_date" \notin DOMAIN w.profile.v.today
         THEN Raise(w)
    ELSE IF TasksRaise(w.profile.v.realization.action_blocks) THEN Raise(w)
    ELSE w

today_tab(w, d) == TodayFields(ensure_week_initialized(w, d))

\* settings_tab(): the logout button clears the session.
settings_tab(w, logout) ==
    IF w.err \/ ~logout THEN w
    ELSE [w EXCEPT !.authed = FALSE, !.user = None, !.profile = None]

\* Lines 1036-1083: a run of the script for an authenticated session on
\* day d, with `typed` in the text area of the table (progress_tab writes
\* nothing).
main(w, d, typed, logout) ==
    settings_tab(
        save_profile(
            save_profile(
                today_tab(
                    save_profile(
                        realization_tab(
                            save_profile(foundation_tab(LoadProfile(w), typed)), d)),
                    d))),
        logout)

\* The secrets MASTER_EMAIL and MASTER_PASSWORD: "M@x", "masterpw".
MasterEmail == <<77, 64, 120>>
MasterPassword == <<109, 97, 115, 116, 101, 114, 112, 119>>

\* The emails typed: "a@x", " A@X ", "ax" and "".
Emails == {<<97, 64, 120>>, <<32, 65, 64, 88, 32>>, <<97, 120>>, <<>>}

\* The passwords typed: "password" and "passwor".
Passwords ==
    {<<112, 97, 115, 115, 119, 111, 114, 100>>,
     <<112, 97, 115, 115, 119, 111, 114>>}

\* What is typed into the text area of the table: nothing, " " or "A".
Tables == {None, Some(<<32>>), Some(<<65>>)}

\* date.today() at the start: Sunday 2026-11-01, as an ordinal.
FirstDay == 739921

\* The days that pass.
MaxDays == 1

\* The datastore calls a run of each handler makes at most; a run in which
\* that many succeed raises no exception of the datastore.
Calls == [master_login |-> 4, form_login |-> 3, sign_up |-> 3, main |-> 5]

\* ------------------------------------------------------------------------
\* State
\* ------------------------------------------------------------------------

VARIABLES
    raw,        \* the potentials text passed in (foundation.potentials_table)
    pc,         \* "input", or the function that has run on raw
    tokens,     \* normalize_potentials_text: tokens = _clean_tokens(raw)
    padded,     \* normalize_potentials_text: tokens when the 3x3 is built
    summary,    \* normalize_potentials_text: the string returned
    p9,         \* ai_generate_master_report_spch: p9
    matrix_md,  \* ai_generate_master_report_spch: matrix_md
    bundle,     \* ai_generate_master_report_spch: bundle
    preview,    \* foundation_tab: the text st.code shows under the field
    content,    \* ai_generate_focus: resp.choices[0].message.content
    plan,       \* ai_generate_focus: the value returned
    authed,     \* st.session_state.authed
    user,       \* st.session_state.user: None or the row of pp_users
    profile,    \* st.session_state.profile: None or a dict
    users,      \* the rows of the table pp_users
    profiles,   \* the table pp_profiles: user_id -> data
    today,      \* date.today(), as an ordinal
    seen,       \* the profile foundation_tab was last called with
    notice,     \* what the last run showed: a message, or "exception"
    form,       \* the text inputs of the form whose button was clicked
    sessions,   \* concurrent sign-ups: each session's position and locals
    unique,     \* whether pp_users.email has a unique constraint
    applied     \* the plan last applied: the response, and realization then

vars ==
    <<raw, pc, tokens, padded, summary, p9, matrix_md, bundle, preview,
      content, plan, authed, user, profile, users, profiles, today, seen,
      notice, form, sessions, unique, applied>>

\* The variables of the potentials functions, of ai_generate_focus.
potentialsVars ==
    <<raw, tokens, padded, summary, p9, matrix_md, bundle, preview>>
planVars == <<content, plan>>
sessionVars ==
    <<authed, user, profile, users, profiles, today, seen, notice, form>>
signupVars == <<sessions, unique>>

\* No potentials text is being processed.
PotentialsIdle ==
    /\ raw = None
    /\ tokens = <<>>
    /\ padded = <<>>
    /\ summary = <<>>
    /\ p9 = <<>>
    /\ matrix_md = <<>>
    /\ bundle = EmptyDict
    /\ preview = None

\* No plan is being generated.
PlanIdle == content = None /\ plan = None

\* No plan was applied.
ApplyIdle == applied = None

\* No concurrent sign-ups are followed.
SignUpIdle == sessions = <<>> /\ unique = FALSE

\* init_state() on a new session, with empty tables.
SessionIdle ==
    /\ authed = FALSE
    /\ user = None
    /\ profile = None
    /\ users = {}
    /\ profiles = EmptyDict
    /\ today = FirstDay
    /\ seen = None
    /\ notice = ""
    /\ form = <<>>

Init ==
    /\ raw \in RawInputs
    /\ pc = "input"
    /\ tokens = <<>>
    /\ padded = <<>>
    /\ summary = <<>>
    /\ p9 = <<>>
    /\ matrix_md = <<>>
    /\ bundle = EmptyDict
    /\ preview = None
    /\ PlanIdle
    /\ SessionIdle
    /\ SignUpIdle
    /\ ApplyIdle

\* A call of normalize_potentials_text (the definition at line 84) on raw.
NormalizePotentialsText ==
    /\ pc = "input"
    /\ tokens' = _clean_tokens(raw)
    /\ padded' = PaddedTokens(raw)
    /\ summary' = normalize_potentials_text_L84(raw)
    /\ pc' = "normalize_potentials_text"
    /\ UNCHANGED <<raw, p9, matrix_md, bundle, preview, planVars, sessionVars, signupVars, applied>>

\* Lines 601-603 of ai_generate_master_report_spch on raw.
MasterReport ==
    /\ pc = "input"
    /\ p9' = parse_potentials_9(raw)
    /\ matrix_md' = build_matrix_md(p9')
    /\ bundle' = build_canon_bundle(p9')
    /\ pc' = "ai_generate_master_report_spch"
    /\ UNCHANGED <<raw, tokens, padded, summary, preview, planVars,
                   sessionVars, signupVars, applied>>

\* Lines 821-824 of foundation_tab: the preview of a non-blank field, by
\* the normalize_potentials_text the name is bound to (line 346).
FoundationPreview ==
    /\ pc = "input"
    /\ ~raw.none
    /\ Strip(raw.s) # <<>>
    /\ preview' = Str(normalize_potentials_text(raw))
    /\ pc' = "foundation_tab"
    /\ UNCHANGED <<raw, tokens, padded, summary, p9, matrix_md, bundle,
                   planVars, sessionVars, signupVars, applied>>

Next == NormalizePotentialsText \/ MasterReport \/ FoundationPreview

Spec == Init /\ [][Next]_vars

\* ai_generate_focus on the content of a response.
PlanInit ==
    /\ pc = "input"
    /\ content \in Responses
    /\ plan = None
    /\ PotentialsIdle
    /\ SessionIdle
    /\ SignUpIdle
    /\ ApplyIdle

\* Lines 404-419 of ai_generate_focus, for a client that answered.
GenerateFocus ==
    /\ pc = "input"
    /\ \E ids \in [1..4 -> TokenIds] :
          plan' = Some(ai_generate_focus(content, ids))
    /\ pc' = "ai_generate_focus"
    /\ UNCHANGED <<content, potentialsVars, sessionVars, signupVars, applied>>

PlanNext == GenerateFocus

PlanSpec == PlanInit /\ [][PlanNext]_vars

\* The session: init_state() has run, the tables are empty.  The functions
\* are taken as defined and lines 1030-1083 as run.  (Executed as a file,
\* line 587 raises NameError before any of them is defined: the defaults of
\* ai_generate_master_report_spch name f, profile and model, which are
\* evaluated when the def statement runs.)
SessionInit ==
    /\ pc = "init_state"
    /\ SessionIdle
    /\ SignUpIdle
    /\ ApplyIdle
    /\ PotentialsIdle
    /\ PlanIdle

\* The run of the script that starts in the current state, in which the
\* first `left` datastore calls succeed.
Run(left) ==
    [authed |-> authed, user |-> user, profile |-> profile, users |-> users,
     profiles |-> profiles, seen |-> seen, notice |-> "", ret |-> None,
     u |-> None, left |-> left, err |-> FALSE]

\* The state the run w of the handler `name` leaves, for the values typed
\* into the form whose button was clicked (<<>> when it was no form's).
Finish(w, name, typed) ==
    /\ pc' = name
    /\ form' = typed
    /\ notice' = IF w.err THEN "exception" ELSE w.notice
    /\ authed' = w.authed
    /\ user' = w.user
    /\ users' = w.users
    /\ profile' = w.profile
    /\ profiles' = w.profiles
    /\ seen' = IF name \in {"main", "settings_tab"} THEN w.seen ELSE None
    /\ UNCHANGED <<today, potentialsVars, planVars, signupVars>>

\* auth_screen: the master button is clicked.
MasterLogin ==
    /\ ~authed
    /\ \E left \in 0..Calls.master_login :
          Finish(master_login(Run(left), MasterEmail, MasterPassword),
                 "master_login", <<>>)
    /\ UNCHANGED applied

\* auth_screen: the button of the login form is clicked with email and pw
\* typed.
FormLogin ==
    /\ ~authed
    /\ \E email \in Emails : \E pw \in Passwords :
          \E left \in 0..Calls.form_login :
              Finish(form_login(Run(left), email, pw), "form_login",
                     <<email, pw>>)
    /\ UNCHANGED applied

\* auth_screen: the button of the sign-up form is clicked with email2, pw2
\* and pw3 typed.
SignUp ==
    /\ ~authed
    /\ \E email2 \in Emails : \E pw2, pw3 \in Passwords :
          \E left \in 0..Calls.sign_up :
              Finish(sign_up(Run(left), email2, pw2, pw3), "sign_up",
                     <<email2, pw2, pw3>>)
    /\ UNCHANGED applied

\* A run of the script for an authenticated session, no widget touched.
Render ==
    /\ authed
    /\ \E typed \in Tables : \E left \in 0..Calls.main :
          Finish(main(Run(left), today, typed, FALSE), "main", <<>>)
    /\ UNCHANGED applied

\* A run of the script in which the logout button is clicked.
Logout ==
    /\ authed
    /\ \E typed \in Tables : \E left \in 0..Calls.main :
          Finish(main(Run(left), today, typed, TRUE), "settings_tab", <<>>)
    /\ UNCHANGED applied

\* A day passes.
Midnight ==
    /\ today < FirstDay + MaxDays
    /\ today' = today + 1
    /\ UNCHANGED <<pc, authed, user, profile, users, profiles, seen, notice,
                   form, potentialsVars, planVars, signupVars, applied>>

SessionNext ==
    MasterLogin \/ FormLogin \/ SignUp \/ Render \/ Logout \/ Midnight

SessionSpec == SessionInit /\ [][SessionNext]_vars

\* ------------------------------------------------------------------------
\* Sign-ups of several sessions (lines 758-771), one datastore call a step
\* ------------------------------------------------------------------------

\* The browser sessions that submit the sign-up form.
MaxSessions == 2
Sessions == 1..MaxSessions

\* The emails typed into the sign-up forms: "a@x", " A@X " and "b@x".
SignUpEmails == {<<97, 64, 120>>, <<32, 65, 64, 88, 32>>, <<98, 64, 120>>}

\* A session whose sign-up form is shown.
AtForm == [pc |-> "form", email2 |-> <<>>, pw2 |-> <<>>, u |-> None,
           notice |-> ""]

\* The tables as one datastore call finds them.
Call ==
    [users |-> users, profiles |-> profiles, ret |-> None, left |-> 1,
     err |-> FALSE]

\* The script of every session has run init_state(); the tables are empty.
\* The definition of the table pp_users is not in the repository: its email
\* column has a unique constraint, or it has none.
RaceInit ==
    /\ pc = "auth_screen"
    /\ sessions = [s \in Sessions |-> AtForm]
    /\ unique \in BOOLEAN
    /\ ApplyIdle
    /\ SessionIdle
    /\ PotentialsIdle
    /\ PlanIdle

\* Session s goes to `to`, showing `text`.
Goes(s, to, text) ==
    sessions' = [sessions EXCEPT ![s].pc = to, ![s].notice = text]

\* Lines 758-764: the button is clicked in session s; the three tests of
\* the form.
Click(s) ==
    /\ sessions[s].pc = "form"
    /\ \E email2 \in SignUpEmails : \E pw2, pw3 \in Passwords :
          sessions' = [sessions EXCEPT ![s] =
              IF SignUpError(email2, pw2, pw3) # ""
              THEN [@ EXCEPT !.pc = "done",
                             !.notice = SignUpError(email2, pw2, pw3)]
              ELSE [@ EXCEPT !.pc = "db_get_user_by_email",
                             !.email2 = email2, !.pw2 = pw2]]
    /\ UNCHANGED <<pc, unique, applied, sessionVars, potentialsVars, planVars>>

\* Line 765: db_get_user_by_email(email2) in session s.
Lookup(s) ==
    /\ sessions[s].pc = "db_get_user_by_email"
    /\ IF db_get_user_by_email(Call, sessions[s].email2).ret.none
       THEN Goes(s, "db_create_user", "")
       ELSE Goes(s, "done", "exists")
    /\ UNCHANGED <<pc, unique, applied, sessionVars, potentialsVars, planVars>>

\* The rows of pp_users with the email a sign-up of email2 would insert.
SameEmail(email2) == {r \in users : r.email = Strip(Lower(email2))}

\* Line 768: u = db_create_user(email2, pw2) in session s.  The insert
\* raises when a unique constraint refuses the row.
Insert(s) ==
    /\ sessions[s].pc = "db_create_user"
    /\ IF unique /\ SameEmail(sessions[s].email2) # {}
       THEN /\ Goes(s, "done", "exception")
            /\ users' = users
       ELSE /\ users' = db_create_user(Call, sessions[s].email2,
                                       sessions[s].pw2).users
            /\ sessions' = [sessions EXCEPT
                  ![s].pc = "db_upsert_profile",
                  ![s].u = db_create_user(Call, sessions[s].email2,
                                          sessions[s].pw2).ret]
    /\ UNCHANGED <<pc, unique, applied, authed, user, profile, profiles,
                   today, seen, notice, form, potentialsVars, planVars>>

\* Lines 769-771: the default profile of the new user is stored.
Upsert(s) ==
    /\ sessions[s].pc = "db_upsert_profile"
    /\ profiles' = db_upsert_profile(Call, sessions[s].u.v.id,
                                      default_profile).profiles
    /\ Goes(s, "done", "created")
    /\ UNCHANGED <<pc, unique, applied, authed, user, profile, users,
                   today, seen, notice, form, potentialsVars, planVars>>

RaceNext == \E s \in Sessions : Click(s) \/ Lookup(s) \/ Insert(s) \/ Upsert(s)

RaceSpec == RaceInit /\ [][RaceNext]_vars

\* ------------------------------------------------------------------------
\* The button of the plan (lines 858-953), for a session that signed in
\* ------------------------------------------------------------------------

\* A dict of the response, from its pairs.
Obj(pairs) == JDict(DictOf(pairs))

\* Items of a response: {"id": "a1", "title": " w ", "minutes": 10, "freq":
\* "weekly"}, {"title": "x"}, {"id": "", "title": "y", "minutes": "0",
\* "freq": " "}, {"title": "z", "minutes": "abc"} and {"id": [1], "title":
\* "v", "minutes": 12.5}.
ItWalk ==
    Obj(<< <<K.id, JStr(<<97, 49>>)>>, <<K.title, JStr(<<32, 119, 32>>)>>,
           <<K.minutes, JNum(<<49, 48>>)>>, <<K.freq, JStr(<<119, 101, 101, 107, 108, 121>>)>> >>)
ItBare == Obj(<< <<K.title, JStr(<<120>>)>> >>)
ItZero ==
    Obj(<< <<K.id, JStr(<<>>)>>, <<K.title, JStr(<<121>>)>>,
           <<K.minutes, JStr(<<48>>)>>, <<K.freq, JStr(<<32>>)>> >>)
ItBad == Obj(<< <<K.title, JStr(<<122>>)>>, <<K.minutes, JStr(<<97, 98, 99>>)>> >>)
ItList ==
    Obj(<< <<K.id, JList(<<JNum(<<49>>)>>)>>, <<K.title, JStr(<<118>>)>>,
           <<K.minutes, JNum(<<49, 50, 46, 53>>)>> >>)

\* A block of the response.
Block(k, items) == Obj(<< <<K.key, k>>, <<K.items, items>> >>)

\* Blocks of a response: for the keys "focus" and "energy" of the profile,
\* for the unknown key "zzz", with an item that raises, with null for its
\* items, with a list for its key, and without key.
ForFocus == Block(JStr(K.focus), JList(<<ItWalk>>))
ForEnergy == Block(JStr(K.energy), JList(<<ItBare, ItZero>>))
ForUnknown == Block(JStr(<<122, 122, 122>>), JList(<<ItWalk>>))
ForFocusBad == Block(JStr(K.focus), JList(<<ItBare, ItBad>>))
ForEnergyList == Block(JStr(K.energy), JList(<<ItList>>))
ForFocusNull == Block(JStr(K.focus), JNull)
ForListKey == Block(JList(<<>>), JList(<<ItWalk>>))
ForNoKey == Obj(<< <<K.items, JList(<<ItBare>>)>> >>)

\* The lists of blocks of the responses; "x" is a block that is no dict.
PlanBlocks ==
    {<<>>,
     <<ForFocus>>,
     <<ForUnknown, ForFocus>>,
     <<ForEnergy>>,
     <<ForFocusNull>>,
     <<ForEnergy, ForFocusBad>>,
     <<ForListKey, ForFocus>>,
     <<ForNoKey, JStr(<<120>>)>>,
     <<ForEnergyList>>}

\* {"weekly_focus": " f ", "action_blocks": bls}
WithBlocks(bls) ==
    Obj(<< <<K.weekly_focus, JStr(<<32, 102, 32>>)>>,
           <<K.action_blocks, JList(bls)>> >>)

\* What ai_generate_focus returns: the fallback, dicts with the blocks
\* above, a dict whose action_blocks is null, and a truthy value that is no
\* dict ([1]).
Plans ==
    {FallbackPlan([b \in 1..4 |-> <<102, 48 + b>>])}
    \cup {WithBlocks(bls) : bls \in PlanBlocks}
    \cup {Obj(<< <<K.action_blocks, JNull>> >>),
          JList(<<JNum(<<49>>)>>)}

\* ai_generate_focus raises (None), or returns a plan.
Outcomes == {None} \cup {Some(p) : p \in Plans}

\* What is typed into the text areas of the points: nothing or "a".
Points == {None, Some(<<97>>)}

\* The datastore calls that succeed in these runs: none, the first one only
\* (the save_profile() of line 910 raises inside the try statement), or all.
Outages == {0, 1, Calls.main}

\* A new session and empty tables, every datastore call succeeding.
Fresh ==
    [authed |-> FALSE, user |-> None, profile |-> None, users |-> {},
     profiles |-> EmptyDict, seen |-> None, notice |-> "", ret |-> None,
     u |-> None, left |-> Calls.sign_up + Calls.form_login + Calls.main,
     err |-> FALSE]

\* "a@x" signed up with "password", logged in, and the script ran with "A"
\* typed into the table of potentials.
SignedIn ==
    main(form_login(sign_up(Fresh, <<97, 64, 120>>,
                            <<112, 97, 115, 115, 119, 111, 114, 100>>,
                            <<112, 97, 115, 115, 119, 111, 114, 100>>),
                    <<97, 64, 120>>,
                    <<112, 97, 115, 115, 119, 111, 114, 100>>),
         FirstDay, Some(<<65>>), FALSE)

ApplyInit ==
    /\ pc = "main"
    /\ authed = SignedIn.authed
    /\ user = SignedIn.user
    /\ profile = SignedIn.profile
    /\ users = SignedIn.users
    /\ profiles = SignedIn.profiles
    /\ today = FirstDay
    /\ seen = SignedIn.seen
    /\ notice = ""
    /\ form = <<>>
    /\ ApplyIdle
    /\ SignUpIdle
    /\ PotentialsIdle
    /\ PlanIdle

\* Lines 1036-1062 and 859-876: the script up to the buttons of
\* realization_tab on day d, with a and b typed into the points.
BeforeButtons(w, d, a, b) ==
    PointFields(
        ensure_week_initialized(
            save_profile(foundation_tab(LoadProfile(w), None)), d),
        a, b)

\* Lines 916-953 and 1063-1083: the script after the buttons of
\* realization_tab.
AfterButtons(w, d) ==
    settings_tab(
        save_profile(save_profile(today_tab(save_profile(Editors(w)), d))),
        FALSE)

\* A run of the script in which a and b are typed into the points (nothing,
\* when st.rerun() started it).
EditPoints ==
    /\ authed
    /\ \E a, b \in Points : \E left \in Outages :
          Finish(AfterButtons(BeforeButtons(Run(left), today, a, b), today),
                 "main", <<>>)
    /\ UNCHANGED applied

\* The run w after the try statement of lines 880-914: st.rerun() ended it,
\* or the script goes on.  applied is r as the statement left it, with the
\* value ai_generate_focus gave.
Clicked(w, res) ==
    /\ applied' = IF w.err THEN None
                  ELSE Some([out |-> res, r |-> w.profile.v.realization])
    /\ IF ~w.err /\ w.notice = "plan_created"
       THEN Finish(w, "st.rerun", <<>>)
       ELSE Finish(AfterButtons(w, today), "realization_tab", <<>>)

\* A run of the script in which the button of the plan is clicked.
ClickPlan ==
    /\ authed
    /\ \E res \in Outcomes : \E left \in Outages :
          Clicked(plan_button(BeforeButtons(Run(left), today, None, None),
                              res),
                  res)

ApplyNext == ClickPlan \/ EditPoints

ApplySpec == ApplyInit /\ [][ApplyNext]_vars



\* ------------------------------------------------------------------------
\* Properties
\* ------------------------------------------------------------------------

\* normalize_potentials_text has run on raw.
Normalized == pc = "normalize_potentials_text"

\* Lines 601-603 of ai_generate_master_report_spch have run on raw.
Reported == pc = "ai_generate_master_report_spch"

\* s.split(c): the pieces between single occurrences of c.
SplitEach(s, c) ==
    LET cuts == {0, Len(s) + 1} \cup {i \in 1..Len(s) : s[i] = c}
        Cut(k) == CHOOSE x \in cuts : Cardinality({y \in cuts : y < x}) = k
    IN  [k \in 1..(Cardinality(cuts) - 1) |->
            SubSeq(s, Cut(k - 1) + 1, Cut(k) - 1)]

\* The labels of raw read as a comma-joined list.
CommaLabels == SplitEach(OrEmpty(raw), Ch.comma)

\* Characters that separate labels, and the dashes.
SeparatorChars == {Ch.comma, Ch.semicolon, Ch.pipe, Ch.bullet} \cup LineBreaks

DashChars == {Ch.hyphen, Ch.endash, Ch.emdash}

\* A label that contains no separators, digits, dashes or filler words
\* (and is trimmed and not empty).
CleanLabel(l) ==
    /\ l # <<>>
    /\ Strip(l) = l
    /\ \A i \in 1..Len(l) :
          /\ l[i] \notin SeparatorChars \cup DashChars
          /\ ~IsDigit(l[i])
          /\ FillerEnd(l, i) = 0

\* A label that neither begins nor ends with the list markers '*' and ':'.
MarkerFree(l) ==
    l # <<>> /\ {l[1], l[Len(l)]} \cap {Ch.star, Ch.colon} = {}

\* raw is the comma-joined string of n or more clean labels.
CleanList(n) ==
    /\ ~raw.none
    /\ Len(CommaLabels) >= n
    /\ \A k \in 1..Len(CommaLabels) : CleanLabel(CommaLabels[k])

FirstNine(xs) == SubSeq(xs, 1, 9)

\* C1: for every input (empty, whitespace-only and None included) the
\* potentials parser returns exactly nine labels.
C1_ParserReturnsNine == Reported => Len(p9) = 9

\* C2: given the empty string, the potentials parser returns the nine
\* default labels unchanged and in their defined order.
C2_EmptyGivesDefaults == (Reported /\ raw = Str(<<>>)) => p9 = DEFAULT_NAMES

\* C3: when the input yields nine or more tokens, the result is exactly the
\* first nine of them in their original order: for normalize_potentials_text
\* the tokens of _clean_tokens, for parse_potentials_9 the labels of a
\* comma-joined list of clean labels.
C3_Truncation ==
    /\ (Normalized /\ Len(tokens) >= 9) => padded = FirstNine(tokens)
    /\ (Reported /\ CleanList(9)
                 /\ \A k \in 1..Len(CommaLabels) : MarkerFree(CommaLabels[k]))
           => p9 = FirstNine(CommaLabels)

\* Twelve tokens were given, nine are kept and the tenth is dropped.
C3_Witness ==
    /\ Normalized
    /\ Len(tokens) = 12
    /\ Len(padded) = 9
    /\ padded[9] = tokens[9]
    /\ tokens[10] # tokens[9]

\* C4: an input with fewer than nine tokens is followed by default labels
\* up to nine: "Аметист, Гранат" gives Аметист, Гранат and then Цитрин,
\* Сапфир, Гелиодор, Изумруд, Янтарь, Шунгит, Рубин.
C4_ShortInputPadded ==
    (Reported /\ raw = Str(ExTwoNames)) =>
        /\ SubSeq(p9, 1, 2) = SubSeq(DEFAULT_NAMES, 1, 2)
        /\ Len(p9) = 9
        /\ SubSeq(p9, 3, 9) = SubSeq(DEFAULT_NAMES, 3, 9)

\* C5 as stated: parsing the comma-joined string of nine labels that
\* contain no separators, digits, dashes or filler words returns exactly
\* those nine labels.
C5_CleanIdentity ==
    (CleanList(9) /\ Len(CommaLabels) = 9) =>
        /\ Normalized => padded = CommaLabels
        /\ Reported => p9 = CommaLabels

\* C5 amended: as above, where for parse_potentials_9 the labels also
\* neither begin nor end with '*' or ':', which _clean_pot_name removes.
C5_CleanIdentityAmended ==
    (CleanList(9) /\ Len(CommaLabels) = 9) =>
        /\ Normalized => padded = CommaLabels
        /\ (Reported /\ \A k \in 1..9 : MarkerFree(CommaLabels[k]))
              => p9 = CommaLabels

\* Nine clean labels, two of them different, came back unchanged.
C5_Witness ==
    /\ Reported
    /\ CleanList(9)
    /\ Len(CommaLabels) = 9
    /\ CommaLabels[1] # CommaLabels[2]
    /\ p9 = CommaLabels

\* C6: "1. Аметист 2) Гранат, 3: Цитрин" yields Аметист, Гранат, Цитрин as
\* the first three outputs.
C6_EnumerationRemoved ==
    raw = Str(ExNumbered) =>
        /\ Normalized => SubSeq(padded, 1, 3) = SubSeq(DEFAULT_NAMES, 1, 3)
        /\ Reported => /\ Len(p9) >= 3
                       /\ SubSeq(p9, 1, 3) = SubSeq(DEFAULT_NAMES, 1, 3)

\* raw with every '|', '—' and '–' replaced by a comma.
WithCommas ==
    Str([i \in 1..Len(OrEmpty(raw)) |->
            IF OrEmpty(raw)[i] \in {Ch.pipe, Ch.emdash, Ch.endash}
            THEN Ch.comma ELSE OrEmpty(raw)[i]])

\* C7: writing '|', '—' or '–' instead of a comma between labels does not
\* change the token sequence; "Аметист | Гранат — Цитрин" yields the three
\* tokens of "Аметист, Гранат, Цитрин".
C7_DashesAndPipesSeparate ==
    Normalized =>
        /\ tokens = _clean_tokens(WithCommas)
        /\ raw = Str(ExMixed) => tokens = SubSeq(DEFAULT_NAMES, 1, 3)

PosKeys ==
    {"pos1", "pos2", "pos3", "pos4", "pos5", "pos6", "pos7", "pos8", "pos9"}

\* C8: the positional view has exactly the nine keys pos1..pos9 for the
\* parse result of every input and for every list shorter than nine; it is
\* never empty.
C8_ViewAlwaysNineKeys ==
    Reported => /\ DOMAIN bundle # {}
                /\ DOMAIN bundle.pos = PosKeys

\* The lines of a text: its pieces between line feeds.
LinesOf(text) == SplitEach(text, Ch.lf)

\* How many times c occurs in s.
Count(s, c) == Cardinality({i \in 1..Len(s) : s[i] = c})

\* s ends with t.
EndsWith(s, t) ==
    Len(t) <= Len(s) /\ SubSeq(s, Len(s) - Len(t) + 1, Len(s)) = t

\* The cells of a row: its pieces between the " | " separators.
CellsOf(line) ==
    LET cells == SplitEach(line, Ch.pipe)
    IN  [j \in 1..Len(cells) |-> Strip(cells[j])]

PunctuationMarks ==
    {Ch.dot, Ch.hyphen, Ch.endash, Ch.emdash, Ch.colon, Ch.rparen, Ch.star,
     Ch.bullet, Ch.slash, Ch.percent, Ch.comma, Ch.semicolon, Ch.pipe}

\* C10: every token is non-empty after trimming surrounding whitespace and
\* punctuation; a piece of punctuation only never survives as a token.
C10_TokensNotPunctuation ==
    /\ Normalized =>
          \A k \in 1..Len(tokens) :
              StripChars(tokens[k], Whitespace \cup PunctuationMarks) # <<>>
    /\ Reported =>
          \A k \in 1..Len(p9) :
              StripChars(p9[k], Whitespace \cup PunctuationMarks) # <<>>

\* C11: the first min(n, 9) positions hold the n user tokens unchanged and
\* in order, and default labels are added only in the positions after n.
C11_DefaultsNeverOverride ==
    Normalized =>
        /\ Len(padded) = 9
        /\ \A k \in 1..9 :
              IF k <= Len(tokens) THEN padded[k] = tokens[k]
              ELSE \E d \in 1..9 : padded[k] = DEFAULT_NAMES[d]

\* Some but fewer than nine tokens were given and a default follows them.
C11_Witness ==
    /\ Normalized
    /\ Len(tokens) \in 1..8
    /\ padded[1] = tokens[1]
    /\ padded[1] # DEFAULT_NAMES[1]
    /\ padded[Len(tokens) + 1] = DEFAULT_NAMES[1]

\* The preview of foundation_tab has been computed from raw.
Previewed == pc = "foundation_tab"

\* C12: the preview the foundation form shows is the three-row summary of
\* the raw text: three lines "1 ряд", "2 ряд", "3 ряд" with nine labels.
C12_PreviewIsThreeRowSummary ==
    Previewed =>
        /\ preview = Str(normalize_potentials_text_L84(raw))
        /\ Len(LinesOf(preview.s)) = 3

\* C13: enumeration stripping does not damage a number that is part of a
\* label: the token "24-hour" keeps its digits and its hyphen.
C13_KeepsNumbersInLabels ==
    (Normalized /\ raw = Str(ExHour)) => tokens = <<ExHour>>

\* C14: every standalone filler is deleted, the percent sign that stands
\* alone or follows a number included: "5% Рубин" and "% Рубин" give the
\* token Рубин with no '%' left.
C14_FillersRemoved ==
    (Normalized /\ raw \in {Str(ExPercent), Str(ExPercentAlone)}) =>
        \A k \in 1..Len(tokens) : Count(tokens[k], Ch.percent) = 0

\* raw with every run of line feeds and carriage returns replaced by a comma.
LineBreaksAsCommas == Str(SubNewlines(OrEmpty(raw), 1))

\* C15: replacing the line breaks of the input by commas gives the same
\* token sequence.
C15_LineBreaksAreCommas ==
    Normalized => tokens = _clean_tokens(LineBreaksAsCommas)

\* ai_generate_focus has returned.
Planned == pc = "ai_generate_focus"

\* A text that cannot hold JSON data: it is empty or blank, or it has no
\* character a JSON value starts with and no '{'.
NoJsonIn(x) ==
    \A i \in 1..Len(OrEmpty(x)) :
        OrEmpty(x)[i] \notin {123, 91, 34, Ch.hyphen, 116, 102, 110, 78, 73}
                             \cup 48..57

\* The value of key k of a dict value.
Get(v, k) == v.d[k]

\* A plan of the shape of the hardcoded default: weekly_focus,
\* focus_explainer and the four blocks structure, focus, growth, energy,
\* each with one item.
IsDefaultPlan(v) ==
    /\ v.t = "dict"
    /\ DOMAIN v.d = {K.weekly_focus, K.focus_explainer, K.action_blocks}
    /\ Get(v, K.weekly_focus) = JStr(FallbackFocus)
    /\ Get(v, K.focus_explainer).t = "str"
    /\ Get(v, K.action_blocks).t = "list"
    /\ LET blocks == Get(v, K.action_blocks).items
       IN  /\ Len(blocks) = 4
           /\ \A b \in 1..4 :
                 /\ Get(blocks[b], K.key) = JStr(BlockKeys[b])
                 /\ Len(Get(blocks[b], K.items).items) = 1

\* C16: when the response text does not parse as structured data (no
\* content, empty or blank text, text that is not JSON and holds no
\* parseable JSON object), ai_generate_focus returns the default plan.
C16_FallbackOnMalformed ==
    Planned =>
        /\ ~plan.none
        /\ (NoJsonIn(content) \/ _extract_json_from_text(content).none)
              => IsDefaultPlan(plan.v)
        /\ content \in {None, Str(<<>>), Str(ExProse), Str(ExTwoObjects),
                        Str(<<123>>), Str(<<123, 107, 125>>)}
              => IsDefaultPlan(plan.v)

\* A text with braces that hold no JSON object got the default plan.
C16_Witness ==
    /\ Planned
    /\ content = Str(ExTwoObjects)
    /\ IsDefaultPlan(plan.v)

\* The fields ensure_profile_schema guarantees are in the dict p.
MigratedFields(p) ==
    /\ "library" \in DOMAIN p
    /\ {"extended_report", "extended_report_updated_at", "positions"}
           \subseteq DOMAIN p.library
    /\ "metrics" \in DOMAIN p
    /\ {"weekly_targets", "monthly_targets"} \subseteq DOMAIN p.metrics
    /\ "today" \in DOMAIN p
    /\ "by_date" \in DOMAIN p.today

\* C17: every profile a tab handler is given has library.extended_report,
\* library.extended_report_updated_at, library.positions,
\* metrics.weekly_targets, metrics.monthly_targets and today.by_date, as
\* ensure_profile_schema applied at load time would leave it.
C17_HandlersSeeMigratedProfile == ~seen.none => MigratedFields(seen.v)

\* C18: an authenticated session has a user and a profile, and a run in
\* which the logout button took effect leaves authed False, user None and
\* profile None.
C18_AuthedHasUserAndProfile ==
    /\ authed => ~user.none /\ ~profile.none
    /\ pc = "settings_tab" /\ notice # "exception" =>
           ~authed /\ user = None /\ profile = None

\* The rows of pp_users whose email is the lowercased, trimmed email typed
\* and whose stored hash is the digest of pw with the stored salt.
Matching(email, pw) ==
    {r \in users : r.email = Strip(Lower(email))
                   /\ r.pw_hash = _pbkdf2_hash(pw, r.salt)}

\* C19: a click on the button of the login form with email and pw typed
\* authenticates the session only as a user whose row has the lowercased,
\* trimmed email and a hash that pw and the stored salt give; when there is
\* no such row, authed, user and profile are left unchanged.
C19_LoginOnlyWithPassword ==
    [][FormLogin =>
        /\ authed' => user' \in {Some(r) : r \in Matching(form'[1], form'[2])}
        /\ Matching(form'[1], form'[2]) = {} =>
               UNCHANGED <<authed, user, profile>>]_vars

\* A form login authenticated the session as the user of "a@x".
C19_Witness ==
    /\ pc = "form_login"
    /\ authed
    /\ ~user.none
    /\ user.v.email = <<97, 64, 120>>
    /\ user.v \in users

\* The sign-up form is filled in as the claim requires: an email with '@',
\* a password of 8 characters or more typed twice, no user of that email.
ValidSignUp(email2, pw2, pw3) ==
    /\ email2 # <<>>
    /\ \E i \in 1..Len(email2) : email2[i] = 64
    /\ Len(pw2) >= 8
    /\ pw2 = pw3
    /\ \A r \in users : r.email # Strip(Lower(email2))

\* C20: a click on the button of the sign-up form never changes authed,
\* user or profile; it writes to pp_users or pp_profiles only when the form
\* is valid, and what a run that ends with "created" has written is one
\* user row for the lowercased, trimmed email, with the digest of the
\* password, and the default profile under its id.
C20_SignUpOnlyWhenValid ==
    [][SignUp =>
        /\ UNCHANGED <<authed, user, profile>>
        /\ ~ValidSignUp(form'[1], form'[2], form'[3]) =>
               UNCHANGED <<users, profiles>>
        /\ notice' = "created" =>
               /\ ValidSignUp(form'[1], form'[2], form'[3])
               /\ \E r \in users' \ users :
                     /\ users' = users \cup {r}
                     /\ r.email = Strip(Lower(form'[1]))
                     /\ r.pw_hash = _pbkdf2_hash(form'[2], r.salt)
                     /\ r.id \notin DOMAIN profiles
                     /\ DOMAIN profiles' = DOMAIN profiles \cup {r.id}
                     /\ profiles'[r.id] = default_profile
                     /\ \A k \in DOMAIN profiles :
                           profiles'[k] = profiles[k]]_vars

\* A sign-up created the user of "a@x" and the default profile of that
\* user, and the session is still not authenticated.
C20_Witness ==
    /\ pc = "sign_up"
    /\ notice = "created"
    /\ ~authed
    /\ \E r \in users : r.email = <<97, 64, 120>>
                        /\ r.id \in DOMAIN profiles
                        /\ profiles[r.id] = default_profile

\* C21: whatever the interleaving of the sign-ups, pp_users holds at most
\* one row for an email (lowercased and trimmed).
C21_OneUserPerEmail ==
    \A r1, r2 \in users : r1.email = r2.email => r1 = r2

\* The response out has a block with the key k.
Mentions(out, k) ==
    /\ out.t = "dict"
    /\ BlocksOf(JGet(out, K.action_blocks, JList(<<>>))).ok
    /\ \E bl \in {BlocksOf(JGet(out, K.action_blocks, JList(<<>>))).v[b] :
                    b \in 1..Len(BlocksOf(JGet(out, K.action_blocks,
                                               JList(<<>>))).v)} :
          bl.t = "dict" /\ JGet(bl, K.key, JNull) = JStr(k)

\* An item of the profile with a non-empty id, an integer minutes and a
\* string freq.
StoredItem(it) ==
    /\ ~JFalsy(it.id)
    /\ it.minutes \in Int
    /\ it.freq \in Seq(Nat)

\* The action blocks `new` keep the keys of `old` in their order, differ
\* from them only in the items of blocks the response mentions, and hold
\* stored items only.
PlanFrame(old, out, new) ==
    /\ Len(new) = Len(old)
    /\ \A i \in 1..Len(old) :
          /\ new[i].key = old[i].key
          /\ new[i].items # old[i].items => Mentions(out, old[i].key)
          /\ \A j \in 1..Len(new[i].items) : StoredItem(new[i].items[j])

\* A step of ClickPlan, the one action that leaves pc at these values.
PlanClicked == pc' \in {"st.rerun", "realization_tab"}

\* C22: applying an AI-generated plan replaces the items only of action
\* blocks whose key already exists in the profile: blocks of the response
\* with unknown keys are ignored, blocks of the profile the response does
\* not mention keep their items, the keys of the profile's blocks and their
\* order never change, and every stored item has a non-empty id, an integer
\* minutes and a freq string.
C22_PlanReplacesKnownBlocksOnly ==
    [][(PlanClicked /\ ~applied'.none /\ ~applied'.v.out.none)
          => PlanFrame(profile.v.realization.action_blocks,
                       applied'.v.out.v,
                       applied'.v.r.action_blocks)]_vars

\* The response named "zzz" and "focus": the plan was stored, the items of
\* "focus" are the one of the response, and "energy" keeps the two items an
\* earlier plan gave it.
C22_Witness ==
    /\ pc = "st.rerun"
    /\ ~applied.none
    /\ applied.v.out =
          Some(WithBlocks(<<ForUnknown, ForFocus>>))
    /\ applied.v.r.action_blocks[2].items =
          <<[id |-> JStr(<<97, 49>>), title |-> <<119>>, minutes |-> 10,
             freq |-> <<119, 101, 101, 107, 108, 121>>]>>
    /\ Len(applied.v.r.action_blocks[4].items) = 2
    /\ applied.v.r.action_blocks[1].items = <<>>
    /\ profile.v.realization = applied.v.r

\* The session has a profile with the dict "realization".
HasRealization ==
    authed /\ ~NoProfile(profile) /\ "realization" \in DOMAIN profile.v

\* The value of realization.week_start in the run w.
WeekStart(w) == w.profile.v.realization.week_start

\* text is the ISO date of a Monday that is at most 6 days before day d.
MondayOfWeekOf(text, d) ==
    \E m \in (d - 6)..d : weekday(m) = 0 /\ text = isoformat(m)

\* save_profile() was called between the runs v and w: a datastore call
\* was made, or it raised.
Saved(v, w) == w.left # v.left \/ w.err # v.err

\* The run w differs from the run v in realization.week_start at most (and
\* in what a save of the profile leaves).
OnlyWeekStartSet(v, w) ==
    /\ [w EXCEPT !.profile = v.profile, !.profiles = v.profiles,
                 !.ret = v.ret, !.left = v.left, !.err = v.err] = v
    /\ [w.profile.v EXCEPT !.realization = v.profile.v.realization]
          = [v.profile.v EXCEPT !.meta = w.profile.v.meta]
    /\ \A k \in DOMAIN v.profile.v.realization \ {"week_start"} :
          w.profile.v.realization[k] = v.profile.v.realization[k]

\* The run w is what ensure_week_initialized(profile) on day d made of the
\* run v: it holds the ISO date of the week's Monday and nothing else new,
\* with a save only if another value was stored; a call on the same day,
\* or on the first or the last day of the same week, then changes nothing
\* and saves nothing.
WeekInitializedAs(v, w, d) ==
    /\ MondayOfWeekOf(WeekStart(w), d)
    /\ OnlyWeekStartSet(v, w)
    /\ Saved(v, w) => \/ "week_start" \notin DOMAIN v.profile.v.realization
                      \/ WeekStart(v) # WeekStart(w)
    /\ ~Saved(v, w) => w = v
    /\ \A d2 \in {d - weekday(d), d, d - weekday(d) + 6} :
          ensure_week_initialized(w, d2) = w

WeekInitialized(v, d) == WeekInitializedAs(v, ensure_week_initialized(v, d), d)

\* C23: ensure_week_initialized leaves realization.week_start equal to the
\* ISO date of the Monday of the current week (a date with weekday 0, at
\* most 6 days before today), and triggers a save only when the stored
\* value differed; a second call within the same week changes nothing and
\* performs no save.  Checked on the profile of every signed-in session,
\* for today and the six days after it.
C23_WeekStartIsMonday ==
    HasRealization
        => \A d \in today..(today + 6) : \A left \in {0, 2} :
              WeekInitialized(Run(left), d)

\* The script ran on Monday 2026-11-02 for a profile whose week started on
\* Monday 2026-10-26: "2026-11-02" is in the session and in the datastore.
C23_Witness ==
    /\ pc = "main"
    /\ HasRealization
    /\ today = FirstDay + 1
    /\ weekday(today) = 0
    /\ profile.v.realization.week_start =
          <<50, 48, 50, 54, 45, 49, 49, 45, 48, 50>>
    /\ user.v.id \in DOMAIN profiles
    /\ profiles[user.v.id].realization.week_start =
          <<50, 48, 50, 54, 45, 49, 49, 45, 48, 50>>

\* C24: for every response text, _extract_json_from_text returns either
\* None or a mapping (dict), never a list, a number, a string or a boolean;
\* hence ai_generate_focus always returns a mapping, on which the caller's
\* .get lookups are defined.
C24_ExtractsMappingOrNone ==
    Planned =>
        /\ \/ _extract_json_from_text(content).none
           \/ _extract_json_from_text(content).v.t = "dict"
        /\ plan.v.t = "dict"

====
